---- MODULE Spec2Model ----
(***************************************************************************)
(* A model of conda_build/os_utils/liefldd.py: the linkage resolution      *)
(* engine (inspect_linkages_lief, _get_resolved_location, get_rpaths,      *)
(* get_libraries, get_uniqueness_key), the top-level query get_linkages,   *)
(* and the static archive symbol reader (get_static_lib_exports,           *)
(* get_exports).                                                           *)
(*                                                                         *)
(* Python strings are sequences of atoms: "/" is the path separator, ":"   *)
(* the list separator, "$RPATH", "$SELFDIR", ... the placeholder tokens,   *)
(* and any other atom a run of ordinary characters.  str.replace,          *)
(* str.startswith, str.split, os.path.dirname and os.path.join are         *)
(* computed on these sequences as Python computes them on characters.      *)
(***************************************************************************)
EXTENDS Integers, Sequences, FiniteSets, TLC

VARIABLES
    \* ---- linkage resolution engine (inspect_linkages_lief) ----
    fs,                  \* the file system and what lief.parse yields for each file
    args,                \* the arguments of inspect_linkages_lief
    pc,                  \* position in inspect_linkages_lief
    err,                 \* the exception that ended the call, or "none"
    already_seen,        \* set of uniqueness keys (line 342)
    exedir,              \* os.path.dirname(filename) (line 343)
    todo,                \* the work queue (line 345); an entry is the file path
    default_paths,       \* line 347
    results,             \* line 358
    rpaths_by_binary,    \* line 359
    parents_by_filename, \* line 360
    it,                  \* index of the list iterator of `for element in todo`
    popped,              \* the entry todo.pop(0) removed last (line 363)
    filename2,           \* element[0] (line 364)
    tmp_filename,        \* cursor of the parent-chain walks (lines 370, 381)
    parent_exe_dirname,  \* line 368
    rpaths_transitive,   \* line 382
    expanded,            \* history: the files whose expansion began, in order
    \* ---- one call of _get_resolved_location and the caller's lines 404-411 ----
    rl_in,               \* the call's arguments and the caller's flags
    rl_out,              \* the tuple the call returned
    rl_rec,              \* the caller's results, parents_by_filename and todo
    rl_pc,               \* "call", "returned" or "recorded"
    \* ---- get_linkages ----
    gl_in,               \* have_lief, codefile_type(filename), what pyldd answers
    gl_locals,           \* the local names get_linkages has bound, with their values
    gl_pc,               \* position in get_linkages
    gl_result,           \* the value returned
    gl_err,              \* the exception that ended the call, or "none"
    \* ---- get_exports and get_static_lib_exports ----
    ar_in,               \* the call: entry point, file, archive content, nm, lief
    ar_locals,           \* the local names get_exports has bound, with their values
    ar_pc,               \* position in the call
    ar_result,           \* the value returned
    ar_err,              \* the exception that ended the call, or "none"
    \* ---- memoized_by_arg0_inode and memoized_by_arg0_filehash ----
    mz_variant,          \* which of the two classes the cache instance is of
    mz_cache,            \* self.cache
    mz_lock,             \* the thread that holds self.lock, or "free"
    mz_pc,               \* each thread's position in __call__
    mz_call,             \* each thread's current call: args and kw
    mz_key,              \* each thread's key, once computed
    mz_ret,              \* what each thread's last call returned or raised
    mz_invoked,          \* whether each thread's current call ran self.func
    mz_prior,            \* the keys whose calls had returned when the call began
    mz_returned,         \* the keys for which a call has returned
    mz_ncalls            \* the number of calls begun

engineVars == <<fs, args, pc, err, already_seen, exedir, todo, default_paths,
                results, rpaths_by_binary, parents_by_filename, it, popped,
                filename2, tmp_filename, parent_exe_dirname, rpaths_transitive,
                expanded>>

rlVars == <<rl_in, rl_out, rl_rec, rl_pc>>

glVars == <<gl_in, gl_locals, gl_pc, gl_result, gl_err>>

arVars == <<ar_in, ar_locals, ar_pc, ar_result, ar_err>>

mzVars == <<mz_variant, mz_cache, mz_lock, mz_pc, mz_call, mz_key, mz_ret, mz_invoked,
            mz_prior, mz_returned, mz_ncalls>>

vars == <<engineVars, rlVars, glVars, arVars, mzVars>>

-----------------------------------------------------------------------------
(* Python values *)

\* None, as a value comparable with strings
NoneV == <<"None">>

\* the empty string
EmptyStr == <<>>

\* Python truthiness of a string-or-None value
Truthy(s) == s # NoneV /\ s # EmptyStr

-----------------------------------------------------------------------------
(* String functions *)

StartsWith(s, p) == Len(p) <= Len(s) /\ SubSeq(s, 1, Len(p)) = p

EndsWith(s, p) == Len(p) <= Len(s) /\ SubSeq(s, Len(s) - Len(p) + 1, Len(s)) = p

\* str.replace(old, new) for a non-empty old: every occurrence, left to right
RECURSIVE Replace(_, _, _)
Replace(s, old, new) ==
    IF Len(s) < Len(old) THEN s
    ELSE IF SubSeq(s, 1, Len(old)) = old
         THEN new \o Replace(SubSeq(s, Len(old) + 1, Len(s)), old, new)
         ELSE <<Head(s)>> \o Replace(Tail(s), old, new)

\* str.split(sep) for a one-atom separator: a list of strings
RECURSIVE Split(_, _)
Split(s, sep) ==
    IF \A i \in 1..Len(s) : s[i] # sep THEN <<s>>
    ELSE LET i == CHOOSE k \in 1..Len(s) :
                      s[k] = sep /\ \A j \in 1..(k - 1) : s[j] # sep
         IN  <<SubSeq(s, 1, i - 1)>> \o Split(SubSeq(s, i + 1, Len(s)), sep)

\* str.rstrip('/')
RECURSIVE RStripSlash(_)
RStripSlash(s) ==
    IF s # <<>> /\ s[Len(s)] = "/" THEN RStripSlash(SubSeq(s, 1, Len(s) - 1)) ELSE s

\* os.path.dirname (posixpath)
dirname(p) ==
    LET slashes == {k \in 1..Len(p) : p[k] = "/"}
        i == IF slashes = {} THEN 0
             ELSE CHOOSE k \in slashes : \A j \in slashes : j <= k
        head == SubSeq(p, 1, i)
    IN  IF head # <<>> /\ (\E k \in 1..Len(head) : head[k] # "/")
        THEN RStripSlash(head) ELSE head

\* os.path.join(a, b) (posixpath)
join2(a, b) ==
    IF StartsWith(b, <<"/">>) THEN b
    ELSE IF a = <<>> \/ EndsWith(a, <<"/">>) THEN a \o b
    ELSE a \o <<"/">> \o b

\* atoms that stand for text beginning with the character '$'
DollarAtoms == {"$RPATH", "$SELFDIR", "$EXEDIR", "$SYSROOT", "$ORIGIN", "$LIB"}

\* lib.startswith('$')
StartsWithDollar(s) == s # <<>> /\ Head(s) \in DollarAtoms

\* x in s, for a one-atom x
Contains(s, x) == \E i \in 1..Len(s) : s[i] = x

\* list.remove(x): the first occurrence
RemoveFirst(l, x) ==
    LET i == CHOOSE k \in 1..Len(l) : l[k] = x /\ \A j \in 1..(k - 1) : l[j] # x
    IN  SubSeq(l, 1, i - 1) \o SubSeq(l, i + 1, Len(l))

\* the elements of a list, as a set
Range(l) == {l[i] : i \in 1..Len(l)}

-----------------------------------------------------------------------------
(* The binary descriptor provider (lief) and the file system *)

\* what lief.parse returns for a file it cannot read
NoBinary == [format |-> "None"]

\* os.path.exists
Exists(p) == p \in fs.disk

\* lief.parse(path): the descriptor of an existing file, None for a missing one
lief_parse(path) == IF Exists(path) /\ path \in DOMAIN fs.bin THEN fs.bin[path] ELSE NoBinary

\* os.sep
os_sep == "/"

\* from_os_varnames(binary, input_)
from_os_varnames(binary, input_) ==
    IF binary.format = "MACHO"
    THEN Replace(Replace(Replace(input_, <<"@loader_path">>, <<"$SELFDIR">>),
                         <<"@executable_path">>, <<"$EXEDIR">>),
                 <<"@rpath">>, <<"$RPATH">>)
    ELSE IF binary.format = "ELF"
    THEN LET libdir == IF binary.type = "CLASS64" THEN <<"/", "lib64">> ELSE <<"/", "lib">>
         IN  Replace(Replace(input_, <<"$ORIGIN">>, <<"$SELFDIR">>), <<"$LIB">>, libdir)
    ELSE input_

\* codefile_type_liefldd(file) for a file name
codefile_type(file) ==
    LET binary == lief_parse(file)
    IN  IF binary.format = "PE"
        THEN IF binary.is_dll THEN "DLLfile" ELSE "EXEfile"
        ELSE IF binary.format = "MACHO" THEN "machofile"
        ELSE IF binary.format = "ELF" THEN "elffile"
        ELSE "None"

\* the environment directories with bin first: the variant the order of the
\* PE list is tested against
PathDirsBinFirst(prefix) ==
    << join2(prefix, <<"bin">>),
       join2(join2(join2(prefix, <<"Library">>), <<"mingw-w64">>), <<"bin">>),
       join2(join2(join2(prefix, <<"Library">>), <<"usr">>), <<"bin">>),
       join2(join2(prefix, <<"Library">>), <<"bin">>),
       join2(prefix, <<"Scripts">>) >>

\* _get_path_dirs(prefix)
_get_path_dirs(prefix) ==
    << join2(join2(join2(prefix, <<"Library">>), <<"mingw-w64">>), <<"bin">>),
       join2(join2(join2(prefix, <<"Library">>), <<"usr">>), <<"bin">>),
       join2(join2(prefix, <<"Library">>), <<"bin">>),
       join2(prefix, <<"Scripts">>),
       join2(prefix, <<"bin">>) >>

\* the values of the entries of a list that carry tag t, in order
RECURSIVE ValuesTagged(_, _)
ValuesTagged(entries, t) ==
    IF entries = <<>> THEN <<>>
    ELSE (IF Head(entries).tag = t THEN <<Head(entries).value>> ELSE <<>>)
         \o ValuesTagged(Tail(entries), t)

\* for rpaths_colon in rpaths_colons: rpaths.extend(rpaths_colon.split(':'))
RECURSIVE SplitAll(_)
SplitAll(rpaths_colons) ==
    IF rpaths_colons = <<>> THEN <<>>
    ELSE Split(Head(rpaths_colons), ":") \o SplitAll(Tail(rpaths_colons))

\* get_rpaths(file, exe_dirname, envroot, windows_root) for a parsed binary
get_rpaths(binary, exe_dirname, envroot, windows_root) ==
    LET rpaths ==
          IF binary.format = "PE"
          THEN IF ~Truthy(exe_dirname) THEN <<>>
               ELSE <<Replace(exe_dirname, <<"\\">>, <<"/">>)>>
                    \o (IF Truthy(windows_root)
                        THEN <<windows_root \o <<"/", "System32">>, windows_root>>
                        ELSE <<>>)
                    \o (IF Truthy(envroot) THEN _get_path_dirs(envroot) ELSE <<>>)
          ELSE IF binary.format = "MACHO" /\ binary.has_rpath
          THEN LET paths == ValuesTagged(binary.commands, "RPATH")
               IN  [i \in 1..Len(paths) |-> RStripSlash(paths[i])]
          ELSE IF binary.format = "ELF"
          THEN IF binary.type \in {"CLASS32", "CLASS64"}
               THEN LET runpaths == ValuesTagged(binary.dynamic_entries, "RUNPATH")
                        rpaths_colons == IF Len(runpaths) = 0
                                         THEN ValuesTagged(binary.dynamic_entries, "RPATH")
                                         ELSE runpaths
                    IN  SplitAll(rpaths_colons)
               ELSE <<>>
          ELSE <<>>
    IN  [i \in 1..Len(rpaths) |-> from_os_varnames(binary, rpaths[i])]

\* [l for l in result if not (binary_name and l.endswith(binary_name))]
RECURSIVE DropSelfName(_, _)
DropSelfName(libs, binary_name) ==
    IF libs = <<>> THEN <<>>
    ELSE (IF Truthy(binary_name) /\ EndsWith(Head(libs), binary_name)
          THEN <<>> ELSE <<Head(libs)>>)
         \o DropSelfName(Tail(libs), binary_name)

\* get_libraries(file) for a parsed binary
get_libraries(binary) ==
    IF binary.format = "PE" THEN binary.libraries
    ELSE LET ids == ValuesTagged(binary.commands, "ID_DYLIB")
             binary_name == IF binary.format = "MACHO" /\ binary.has_rpath /\ Len(ids) > 0
                            THEN ids[1] ELSE NoneV
             kept == IF binary.format = "MACHO"
                     THEN DropSelfName(binary.libraries, binary_name)
                     ELSE binary.libraries
         IN  IF binary.format = "MACHO"
             THEN [i \in 1..Len(kept) |-> from_os_varnames(binary, kept[i])]
             ELSE kept

\* get_uniqueness_key(file) for a parsed binary
get_uniqueness_key(binary) ==
    IF binary.format = "MACHO" THEN binary.name
    ELSE IF binary.format = "ELF" /\ binary.type \in {"CLASS32", "CLASS64"}
    THEN LET result == ValuesTagged(binary.dynamic_entries, "SONAME")
         IN  IF result # <<>> THEN result[1] ELSE binary.name
    ELSE binary.name

-----------------------------------------------------------------------------
(* _get_resolved_location *)

\* exists and sysroot and resolved.startswith(sysroot): the value Python's
\* `and` chain yields, named by its repr
ExistsSysroot(resolved, sysroot) ==
    IF ~Exists(resolved) THEN "False"
    ELSE IF sysroot = EmptyStr THEN "''"
    ELSE IF StartsWith(resolved, sysroot) THEN "True" ELSE "False"

\* unresolved.replace('$RPATH', rpath).replace('$SELFDIR', selfdir).replace('$EXEDIR', exedir)
Substitute(unresolved, rpath, selfdir, exedir0) ==
    Replace(Replace(Replace(unresolved, <<"$RPATH">>, rpath),
                    <<"$SELFDIR">>, selfdir),
            <<"$EXEDIR">>, exedir0)

\* a search that returns the last candidate's substitution instead of the token
\* when no candidate is accepted: the variant the not-found rule is tested against
SearchRpathsKeepLast(these_rpaths, unresolved, exedir0, selfdir, sysroot, resolved_rpath) ==
    IF these_rpaths = <<>> THEN <<unresolved, NoneV, "False">>
    ELSE LET rpath == these_rpaths[Len(these_rpaths)]
         IN  <<Substitute(unresolved, rpath, selfdir, exedir0), rpath, "False">>

\* the loop of lines 310-322 over these_rpaths: the first candidate that is
\* accepted, or the unresolved token when none is
RECURSIVE SearchRpaths(_, _, _, _, _, _)
SearchRpaths(these_rpaths, unresolved, exedir0, selfdir, sysroot, resolved_rpath) ==
    IF these_rpaths = <<>> THEN <<unresolved, NoneV, "False">>
    ELSE LET rpath == Head(these_rpaths)
             resolved == Substitute(unresolved, rpath, selfdir, exedir0)
             exists_sysroot == ExistsSysroot(resolved, sysroot)
         IN  IF Truthy(resolved_rpath) \/ Exists(resolved) \/ exists_sysroot = "True"
             THEN <<resolved, rpath, exists_sysroot>>
             ELSE SearchRpaths(Tail(these_rpaths), unresolved, exedir0, selfdir,
                               sysroot, resolved_rpath)

\* ld_library_paths (line 304)
LdLibraryPaths(LD_LIBRARY_PATH) ==
    IF LD_LIBRARY_PATH = EmptyStr THEN <<>> ELSE Split(LD_LIBRARY_PATH, ":")

\* [dp.replace('$SYSROOT/', sysroot) for dp in default_paths] (line 309)
DefaultCandidates(default_paths0, sysroot) ==
    [i \in 1..Len(default_paths0) |-> Replace(default_paths0[i], <<"$SYSROOT", "/">>, sysroot)]

\* a candidate list with the LD_LIBRARY_PATH entries in front of the transitive
\* RPATHs: the variant the search order is tested against
TheseRpathsLdFirst(rpaths_transitive0, LD_LIBRARY_PATH, default_paths0, sysroot, resolved_rpath) ==
    IF Truthy(resolved_rpath) THEN <<resolved_rpath>>
    ELSE LdLibraryPaths(LD_LIBRARY_PATH)
         \o rpaths_transitive0
         \o DefaultCandidates(default_paths0, sysroot)

\* these_rpaths (lines 306-309)
TheseRpaths(rpaths_transitive0, LD_LIBRARY_PATH, default_paths0, sysroot, resolved_rpath) ==
    IF Truthy(resolved_rpath) THEN <<resolved_rpath>>
    ELSE rpaths_transitive0
         \o LdLibraryPaths(LD_LIBRARY_PATH)
         \o DefaultCandidates(default_paths0, sysroot)

\* _get_resolved_location(codefile, unresolved, exedir, selfdir, rpaths_transitive,
\*                        LD_LIBRARY_PATH, default_paths, sysroot, resolved_rpath):
\* the tuple (resolved location, rpath_used, in_sysroot)
_get_resolved_location(unresolved, exedir0, selfdir, rpaths_transitive0, LD_LIBRARY_PATH, default_paths0, sysroot, resolved_rpath) ==
    IF StartsWith(unresolved, <<"$RPATH">>)
    THEN SearchRpaths(TheseRpaths(rpaths_transitive0, LD_LIBRARY_PATH, default_paths0,
                                  sysroot, resolved_rpath),
                      unresolved, exedir0, selfdir, sysroot, resolved_rpath)
    ELSE IF Contains(unresolved, "$SELFDIR") \/ Contains(unresolved, "$EXEDIR")
    THEN LET resolved == Replace(Replace(unresolved, <<"$SELFDIR">>, selfdir),
                                 <<"$EXEDIR">>, exedir0)
         IN  <<resolved, NoneV, ExistsSysroot(resolved, sysroot)>>
    ELSE IF StartsWith(unresolved, <<"/">>)
    THEN <<unresolved, NoneV, "False">>
    ELSE <<join2(selfdir, unresolved), NoneV, "False">>

-----------------------------------------------------------------------------
(* The inputs of the engine: files, their descriptors, the call's arguments *)

Names == {"A", "B", "C"}

\* the directory that holds the binaries
BinDir == <<"/", "d">>

PathOf(n) == BinDir \o <<"/", n>>

Files == {PathOf(n) : n \in Names}

\* the file inspect_linkages_lief is called on
RootFile == PathOf("A")

Formats == {"ELF", "PE", "MACHO"}

\* the SONAME two ELF libraries may share
SharedSoname == <<"S">>

\* a dependency's name as the binary declares it
DeclaredName(fmt, m) == IF fmt = "MACHO" THEN <<"@rpath", "/", m>> ELSE <<m>>

\* the descriptor lief.parse yields for the binary called n, of format fmt,
\* that depends on the binaries called libs (in that order)
Descriptor(fmt, n, libs, soname, is_dll) ==
    [ format  |-> fmt,
      type    |-> "CLASS64",
      name    |-> PathOf(n),
      is_dll  |-> fmt = "PE" /\ is_dll,
      has_rpath |-> fmt = "MACHO",
      libraries |->
          (IF fmt = "MACHO" THEN <<DeclaredName(fmt, n)>> ELSE <<>>)
          \o [i \in 1..Len(libs) |-> DeclaredName(fmt, libs[i])],
      dynamic_entries |->
          IF fmt = "ELF"
          THEN (IF soname # NoneV THEN <<[tag |-> "SONAME", value |-> soname]>> ELSE <<>>)
               \o <<[tag |-> "RPATH", value |-> <<"$ORIGIN">>]>>
          ELSE <<>>,
      commands |->
          IF fmt = "MACHO"
          THEN << [tag |-> "ID_DYLIB", value |-> DeclaredName(fmt, n)],
                  [tag |-> "RPATH", value |-> <<"@loader_path", "/">>] >>
          ELSE <<>> ]

\* the dependency lists a binary may declare: at most MaxLibs names
MaxLibs == 2

LibLists ==
    {<<>>} \cup {<<m>> : m \in Names}
           \cup {p \in {<<m, n>> : m \in Names, n \in Names} : p[1] # p[2]}

\* the dependency lists of the three binaries: no binary names itself
LibConfigs ==
    {l \in [Names -> LibLists] :
        \A n \in Names : Len(l[n]) <= MaxLibs /\ n \notin Range(l[n])}

\* the sets of files that exist
DiskChoices == {Files, Files \ {PathOf("C")}, Files \ {RootFile}}

\* the file systems the engine is run on
Worlds ==
    {[disk |-> d,
      bin  |-> [f \in Files |->
                  LET n == CHOOSE m \in Names : PathOf(m) = f
                  IN  Descriptor(fmt, n, l[n],
                                 IF shared /\ n \in {"B", "C"} THEN SharedSoname ELSE NoneV,
                                 n # "A" \/ rootdll)]] :
        d \in DiskChoices, fmt \in Formats, l \in LibConfigs,
        shared \in BOOLEAN, rootdll \in BOOLEAN}

\* the worlds that differ in what the engine can observe
EngineWorlds ==
    {w \in Worlds :
        LET fmt == w.bin[RootFile].format
        IN  /\ (fmt # "ELF" =>
                  \A f \in Files : ValuesTagged(w.bin[f].dynamic_entries, "SONAME") = <<>>)
            /\ (fmt # "PE" => w.bin[RootFile].is_dll = FALSE)
            /\ (RootFile \notin w.disk => \A f \in Files : Len(w.bin[f].libraries) =
                                              (IF fmt = "MACHO" THEN 1 ELSE 0))}

\* the arguments inspect_linkages_lief is called with
EngineArgs ==
    [filename : {RootFile}, resolve_filenames : BOOLEAN, recurse : BOOLEAN,
     sysroot : {EmptyStr}, envroot : {EmptyStr}]

-----------------------------------------------------------------------------
(* inspect_linkages_lief *)

\* the longest transitive RPATH list a walk is followed to
MaxRpaths == 4

\* d[k] = v on a dict
Put(d, k, v) == [x \in (DOMAIN d) \cup {k} |-> IF x = k THEN v ELSE d[x]]

\* uniqueness_key not in already_seen (line 367)
NotSeen(uniqueness_key, seen) == uniqueness_key \notin seen

\* a visited set that is never extended: the variant the at-most-once rule is
\* tested against
MarkSeenDropped(seen, uniqueness_key) == seen

\* already_seen.add(get_uniqueness_key(binary)) (line 412)
MarkSeen(seen, uniqueness_key) == seen \cup {uniqueness_key}

\* the entry the list iterator of `for element in todo` yields (line 362)
IterElement(q, i) == q[i + 1]

\* todo.pop(0) (line 363): the entry removed and the list that is left
PopFront(q) == [removed |-> Head(q), rest |-> Tail(q)]

\* these_orig (lines 389-395)
TheseOrig(binary, fname) ==
    LET libraries0 == get_libraries(binary)
        libraries == IF fname \in Range(libraries0)
                     THEN RemoveFirst(libraries0, fname) ELSE libraries0
    IN  [i \in 1..Len(libraries) |->
           IF ~StartsWith(libraries[i], <<"/">>) /\ ~StartsWithDollar(libraries[i])
              /\ binary.format # "MACHO"
           THEN <<"$RPATH", "/">> \o libraries[i]
           ELSE libraries[i]]

\* lines 404-411: what the loop body does with one resolved location; st holds
\* results, parents_by_filename and todo
RecordResolved(orig, resolved, fname, resolve_filenames, recurse, st) ==
    [results |-> IF resolve_filenames THEN st.results \cup {resolved[1]}
                                      ELSE st.results \cup {orig},
     parents |-> IF resolve_filenames THEN Put(st.parents, resolved[1], fname)
                                      ELSE st.parents,
     todo    |-> IF recurse /\ Exists(resolved[1]) THEN Append(st.todo, resolved[1])
                                                    ELSE st.todo]

\* the loop of lines 396-411 over these_orig
RECURSIVE ResolveLibs(_, _)
ResolveLibs(these_orig, st) ==
    IF these_orig = <<>> THEN st
    ELSE LET orig == Head(these_orig)
             resolved == _get_resolved_location(orig, exedir, exedir, rpaths_transitive,
                                                EmptyStr, default_paths, args.sysroot, NoneV)
         IN  ResolveLibs(Tail(these_orig),
                         RecordResolved(orig, resolved, filename2, args.resolve_filenames,
                                        args.recurse, st))

\* default_paths (lines 347-357)
DefaultPaths(binary) ==
    IF binary.format = "ELF"
    THEN <<<<"$SYSROOT", "/", "lib">>, <<"$SYSROOT", "/", "usr", "/", "lib">>>>
         \o (IF binary.type = "CLASS64"
             THEN <<<<"$SYSROOT", "/", "lib64">>, <<"$SYSROOT", "/", "usr", "/", "lib64">>>>
             ELSE <<>>)
    ELSE IF binary.format = "MACHO"
    THEN <<<<"$SYSROOT", "/", "usr", "/", "lib">>>>
    ELSE IF binary.format = "PE"
    THEN << <<"$SYSROOT", "/", "System32", "/", "Wbem">>,
            <<"$SYSROOT", "/", "System32", "/", "WindowsPowerShell", "/", "v1.0">> >>
    ELSE <<>>

EngineInit ==
    /\ fs \in EngineWorlds
    /\ args \in EngineArgs
    /\ pc = "start"
    /\ err = "none"
    /\ already_seen = {}
    /\ exedir = EmptyStr
    /\ todo = <<>>
    /\ default_paths = <<>>
    /\ results = {}
    /\ rpaths_by_binary = <<>>
    /\ parents_by_filename = <<>>
    /\ it = 0
    /\ popped = NoneV
    /\ filename2 = NoneV
    /\ tmp_filename = NoneV
    /\ parent_exe_dirname = NoneV
    /\ rpaths_transitive = <<>>
    /\ expanded = <<>>

\* lines 342-360; lief.parse of a missing file yields None, and line 348 reads
\* its format
Begin ==
    /\ UNCHANGED <<rlVars, glVars, arVars, mzVars>>
    /\ pc = "start"
    /\ already_seen' = {}
    /\ exedir' = dirname(args.filename)
    /\ todo' = <<args.filename>>
    /\ LET binary == lief_parse(args.filename)
       IN  IF binary.format = "None"
           THEN /\ pc' = "error"
                /\ err' = "AttributeError"
                /\ UNCHANGED <<default_paths, results, rpaths_by_binary, parents_by_filename>>
           ELSE /\ default_paths' = DefaultPaths(binary)
                /\ results' = {}
                /\ rpaths_by_binary' = <<>>
                /\ parents_by_filename' = Put(<<>>, args.filename, NoneV)
                /\ pc' = "while"
                /\ err' = "none"
    /\ UNCHANGED <<fs, args, it, popped, filename2, tmp_filename, parent_exe_dirname,
                   rpaths_transitive, expanded>>

\* `while todo:` (line 361) and `return results` (line 413)
WhileTest ==
    /\ UNCHANGED <<rlVars, glVars, arVars, mzVars>>
    /\ pc = "while"
    /\ IF todo # <<>> THEN pc' = "for" /\ it' = 0
                      ELSE pc' = "done" /\ it' = it
    /\ UNCHANGED <<fs, args, err, already_seen, exedir, todo, default_paths, results,
                   rpaths_by_binary, parents_by_filename, popped, filename2, tmp_filename,
                   parent_exe_dirname, rpaths_transitive, expanded>>

\* one step of `for element in todo:` (lines 362-367, and 368-370 or 376-382 for
\* an element that is not skipped)
ForNext ==
    /\ UNCHANGED <<rlVars, glVars, arVars, mzVars>>
    /\ pc = "for"
    /\ IF it < Len(todo)
       THEN LET element == IterElement(todo, it)
                binary == lief_parse(element)
                uniqueness_key == get_uniqueness_key(binary)
            IN  /\ it' = it + 1
                /\ popped' = PopFront(todo).removed
                /\ todo' = PopFront(todo).rest
                /\ filename2' = element
                /\ IF NotSeen(uniqueness_key, already_seen)
                   THEN /\ expanded' = Append(expanded, element)
                        /\ tmp_filename' = element
                        /\ IF binary.format = "PE"
                           THEN /\ parent_exe_dirname' = NoneV
                                /\ pc' = "pe_walk"
                                /\ UNCHANGED <<rpaths_by_binary, rpaths_transitive>>
                           ELSE /\ parent_exe_dirname' = exedir
                                /\ rpaths_by_binary' =
                                     Put(rpaths_by_binary, element,
                                         get_rpaths(binary, exedir,
                                                    Replace(args.envroot, <<os_sep>>, <<"/">>),
                                                    args.sysroot))
                                /\ rpaths_transitive' = <<>>
                                /\ pc' = "walk"
                   ELSE /\ pc' = "for"
                        /\ UNCHANGED <<expanded, tmp_filename, parent_exe_dirname,
                                       rpaths_by_binary, rpaths_transitive>>
       ELSE /\ pc' = "while"
            /\ UNCHANGED <<it, popped, todo, filename2, expanded, tmp_filename,
                           parent_exe_dirname, rpaths_by_binary, rpaths_transitive>>
    /\ UNCHANGED <<fs, args, err, already_seen, exedir, default_paths, results,
                   parents_by_filename>>

\* PE: one iteration of the nearest-executable walk (lines 371-374), or, at its
\* end, lines 377-384
PeWalkStep ==
    /\ UNCHANGED <<rlVars, glVars, arVars, mzVars>>
    /\ pc = "pe_walk"
    /\ IF Truthy(tmp_filename)
       THEN /\ parent_exe_dirname' =
                  IF ~Truthy(parent_exe_dirname) /\ codefile_type(tmp_filename) = "EXEfile"
                  THEN dirname(tmp_filename) ELSE parent_exe_dirname
            /\ IF tmp_filename \in DOMAIN parents_by_filename
               THEN /\ tmp_filename' = parents_by_filename[tmp_filename]
                    /\ UNCHANGED <<pc, err>>
               ELSE /\ pc' = "error"
                    /\ err' = "KeyError"
                    /\ UNCHANGED tmp_filename
            /\ UNCHANGED <<rpaths_by_binary, rpaths_transitive>>
       ELSE LET rpaths == get_rpaths(lief_parse(filename2), parent_exe_dirname,
                                     Replace(args.envroot, <<os_sep>>, <<"/">>),
                                     args.sysroot)
            IN  /\ rpaths_by_binary' = Put(rpaths_by_binary, filename2, rpaths)
                /\ tmp_filename' = filename2
                /\ rpaths_transitive' = rpaths
                /\ pc' = "expand"
                /\ UNCHANGED <<err, parent_exe_dirname>>
    /\ UNCHANGED <<fs, args, already_seen, exedir, todo, default_paths, results,
                   parents_by_filename, it, popped, filename2, expanded>>

\* ELF, Mach-O: one iteration of the transitive RPATH walk (lines 386-388)
WalkStep ==
    /\ UNCHANGED <<rlVars, glVars, arVars, mzVars>>
    /\ pc = "walk"
    /\ IF Truthy(tmp_filename)
       THEN /\ Len(rpaths_transitive) <= MaxRpaths
            /\ IF tmp_filename \in DOMAIN rpaths_by_binary
                  /\ tmp_filename \in DOMAIN parents_by_filename
               THEN /\ rpaths_transitive' = rpaths_by_binary[tmp_filename] \o rpaths_transitive
                    /\ tmp_filename' = parents_by_filename[tmp_filename]
                    /\ UNCHANGED <<pc, err>>
               ELSE /\ rpaths_transitive' =
                          IF tmp_filename \in DOMAIN rpaths_by_binary
                          THEN rpaths_by_binary[tmp_filename] \o rpaths_transitive
                          ELSE rpaths_transitive
                    /\ pc' = "error"
                    /\ err' = "KeyError"
                    /\ UNCHANGED tmp_filename
       ELSE /\ pc' = "expand"
            /\ UNCHANGED <<err, tmp_filename, rpaths_transitive>>
    /\ UNCHANGED <<fs, args, already_seen, exedir, todo, default_paths, results,
                   rpaths_by_binary, parents_by_filename, it, popped, filename2,
                   parent_exe_dirname, expanded>>

\* lines 389-412: the node's declared libraries are resolved, recorded and
\* enqueued, and the node's key is marked seen
Expand ==
    /\ UNCHANGED <<rlVars, glVars, arVars, mzVars>>
    /\ pc = "expand"
    /\ LET binary == lief_parse(filename2)
           out == ResolveLibs(TheseOrig(binary, filename2),
                              [results |-> results, parents |-> parents_by_filename,
                               todo |-> todo])
       IN  /\ results' = out.results
           /\ parents_by_filename' = out.parents
           /\ todo' = out.todo
           /\ already_seen' = MarkSeen(already_seen, get_uniqueness_key(binary))
    /\ pc' = "for"
    /\ UNCHANGED <<fs, args, err, exedir, default_paths, rpaths_by_binary, it, popped,
                   filename2, tmp_filename, parent_exe_dirname, rpaths_transitive, expanded>>

\* the engine's variables while another operation is modelled
EngineIdle ==
    /\ args = [filename |-> RootFile, resolve_filenames |-> TRUE, recurse |-> TRUE,
               sysroot |-> EmptyStr, envroot |-> EmptyStr]
    /\ pc = "idle"
    /\ err = "none"
    /\ already_seen = {}
    /\ exedir = EmptyStr
    /\ todo = <<>>
    /\ default_paths = <<>>
    /\ results = {}
    /\ rpaths_by_binary = <<>>
    /\ parents_by_filename = <<>>
    /\ it = 0
    /\ popped = NoneV
    /\ filename2 = NoneV
    /\ tmp_filename = NoneV
    /\ parent_exe_dirname = NoneV
    /\ rpaths_transitive = <<>>
    /\ expanded = <<>>

-----------------------------------------------------------------------------
(* inspect_linkages_lief on a chain of binaries with their own search paths:
   A needs B and Z, B needs C *)

\* the directories the binaries A, B and C name as their RPATH or RUNPATH
RpathDirOf(n) == IF n = "A" THEN <<"/", "ra">>
                 ELSE IF n = "B" THEN <<"/", "rb">> ELSE <<"/", "rc">>

\* a directory that only an ignored RPATH entry names
IgnoredDir == <<"/", "rx">>

\* the names A may declare B by: a bare name, or a name with a directory part
ChainBNames == {<<"B">>, <<"sub", "/", "B">>}

\* the sysroot and envroot arguments
ChainSysroots == {EmptyStr, <<"/", "sr">>, <<"/", "sr", "/">>}

ChainEnvroots == {EmptyStr, <<"/", "e">>}

\* the default directory of the format, below a root directory
SystemDir(fmt, root) ==
    IF fmt = "ELF" THEN root \o <<"/", "lib">>
    ELSE IF fmt = "MACHO" THEN root \o <<"/", "usr", "/", "lib">>
    ELSE root \o <<"/", "System32", "/", "Wbem">>

\* where the files are: B where A's search path finds it, C in the directory
\* B names as its search path (cplace = "own"), in the one A names
\* (cplace = "grand") or in the directory that holds B (cplace = "self"), Z in
\* the system directory
ChainPath(fmt, n, bname, cplace) ==
    IF n = "A" THEN RootFile
    ELSE IF n = "B" THEN (IF fmt = "PE" THEN BinDir ELSE RpathDirOf("A")) \o <<"/">> \o bname
    ELSE IF n = "C"
    THEN (IF fmt = "PE" THEN BinDir
          ELSE IF cplace = "own" THEN RpathDirOf("B")
          ELSE IF cplace = "grand" THEN RpathDirOf("A")
          ELSE dirname(RpathDirOf("A") \o <<"/">> \o bname)) \o <<"/", "C">>
    ELSE SystemDir(fmt, <<"/", "sr">>) \o <<"/", "Z">>

\* the name a binary declares a dependency by
ChainDeclared(fmt, name) == IF fmt = "MACHO" THEN <<"@rpath", "/">> \o name ELSE name

\* the dynamic entries of an ELF binary: tags is "RPATH", "RUNPATH", "BOTH"
\* (a RUNPATH entry and an RPATH entry that is then ignored), "ORIGIN" (an
\* RPATH entry that names the binary's own directory) or "NONE"
ChainEntries(n, tags) ==
    IF tags = "ORIGIN" THEN <<[tag |-> "RPATH", value |-> <<"$ORIGIN">>]>>
    ELSE IF tags = "RPATH" THEN <<[tag |-> "RPATH", value |-> RpathDirOf(n)]>>
    ELSE IF tags = "RUNPATH" THEN <<[tag |-> "RUNPATH", value |-> RpathDirOf(n)]>>
    ELSE IF tags = "BOTH" THEN <<[tag |-> "RPATH", value |-> IgnoredDir],
                                 [tag |-> "RUNPATH", value |-> RpathDirOf(n)]>>
    ELSE <<>>

\* the descriptor lief.parse yields for a binary of the chain
ChainDescriptor(fmt, cls, n, path, libs, tags, is_dll) ==
    [ format  |-> fmt,
      type    |-> cls,
      name    |-> path,
      is_dll  |-> fmt = "PE" /\ is_dll,
      has_rpath |-> fmt = "MACHO" /\ tags # "NONE",
      libraries |->
          (IF fmt = "MACHO" THEN <<ChainDeclared(fmt, <<n>>)>> ELSE <<>>)
          \o [i \in 1..Len(libs) |-> ChainDeclared(fmt, libs[i])],
      dynamic_entries |-> IF fmt = "ELF" THEN ChainEntries(n, tags) ELSE <<>>,
      commands |->
          IF fmt = "MACHO"
          THEN <<[tag |-> "ID_DYLIB", value |-> ChainDeclared(fmt, <<n>>)]>>
               \o (IF tags # "NONE"
                   THEN <<[tag |-> "RPATH",
                           value |-> IF tags = "ORIGIN" THEN <<"@loader_path", "/">>
                                     ELSE RpathDirOf(n) \o <<"/">>]>>
                   ELSE <<>>)
          ELSE <<>> ]

ChainNames == {"A", "B", "C", "Z"}

\* the file systems the chain is run on
ChainWorlds ==
    {LET path == [n \in ChainNames |-> ChainPath(fmt, n, bname, cplace)]
         desc == [n \in ChainNames |->
                    ChainDescriptor(fmt, cls, n, path[n],
                                    IF n = "A" THEN <<bname, <<"Z">>>>
                                    ELSE IF n = "B" THEN <<<<"C">>>> ELSE <<>>,
                                    IF n = "A" THEN tagA
                                    ELSE IF n = "B" THEN tagB
                                    ELSE IF n = "C" THEN "RPATH" ELSE "NONE",
                                    n # "A" \/ rootdll)]
     IN  [disk |-> {path[n] : n \in ChainNames},
          bin  |-> [f \in {path[n] : n \in ChainNames} |->
                      desc[CHOOSE n \in ChainNames : path[n] = f]]] :
     fmt \in Formats, cls \in {"CLASS32", "CLASS64"},
     tagA \in {"RPATH", "RUNPATH", "BOTH"}, tagB \in {"RPATH", "RUNPATH", "ORIGIN"},
     bname \in ChainBNames, cplace \in {"own", "grand", "self"}, rootdll \in BOOLEAN}

\* the arguments inspect_linkages_lief is called with on the chain
ChainArgs ==
    [filename : {RootFile}, resolve_filenames : BOOLEAN, recurse : BOOLEAN,
     sysroot : ChainSysroots, envroot : ChainEnvroots]

ChainInit ==
    /\ fs \in ChainWorlds
    /\ args \in ChainArgs
    /\ pc = "start"
    /\ err = "none"
    /\ already_seen = {}
    /\ exedir = EmptyStr
    /\ todo = <<>>
    /\ default_paths = <<>>
    /\ results = {}
    /\ rpaths_by_binary = <<>>
    /\ parents_by_filename = <<>>
    /\ it = 0
    /\ popped = NoneV
    /\ filename2 = NoneV
    /\ tmp_filename = NoneV
    /\ parent_exe_dirname = NoneV
    /\ rpaths_transitive = <<>>
    /\ expanded = <<>>

-----------------------------------------------------------------------------
(* One call of _get_resolved_location, with the caller's lines 404-411 *)

\* the longest rpaths_transitive list a call is given
MaxCandidates == 2

\* the dependency tokens a call is given
ResolveTokens ==
    { <<"$RPATH", "/", "x">>, <<"$SELFDIR", "/", "x">>, <<"$EXEDIR", "/", "x">>,
      <<"/", "abs", "/", "x">>, <<"x">> }

CandidateDirs == { <<"/", "r1">>, <<"/", "r2">> }

RpathLists == UNION {[1..n -> CandidateDirs] : n \in 0..MaxCandidates}

ResolveInputs ==
  {in \in
    [ unresolved : ResolveTokens,
      exedir : {<<"/", "e">>},
      selfdir : {<<"/", "s">>},
      rpaths_transitive : RpathLists,
      LD_LIBRARY_PATH : {EmptyStr, <<"/", "l1">>, <<"/", "l1", ":", "/", "r1">>},
      default_paths : {<<>>, <<<<"$SYSROOT", "/", "lib">>>>},
      sysroot : {EmptyStr, <<"/", "sr">>},
      resolved_rpath : {NoneV, <<"/", "f">>},
      filename2 : {RootFile},
      resolve_filenames : BOOLEAN,
      recurse : BOOLEAN ] :
    \* the search lists matter to $RPATH tokens only
    StartsWith(in.unresolved, <<"$RPATH">>)
    \/ (in.rpaths_transitive = <<>> /\ in.LD_LIBRARY_PATH = EmptyStr
        /\ in.default_paths = <<>> /\ in.resolved_rpath = NoneV)}

\* the files that may exist when the call is made
ResolveDiskFiles ==
    { <<"/", "r1", "/", "x">>, <<"/", "r2", "/", "x">>, <<"/", "l1", "/", "x">>,
      <<"/", "sr", "lib", "/", "x">>, <<"/", "f", "/", "x">> }

RlIdle ==
    /\ rl_in = [unresolved |-> EmptyStr]
    /\ rl_out = <<>>
    /\ rl_rec = [results |-> {}, parents |-> <<>>, todo |-> <<>>]
    /\ rl_pc = "idle"

RlInit ==
    /\ fs \in {[disk |-> d, bin |-> <<>>] : d \in SUBSET ResolveDiskFiles}
    /\ rl_in \in ResolveInputs
    /\ rl_out = <<>>
    /\ rl_rec = [results |-> {}, parents |-> Put(<<>>, RootFile, NoneV), todo |-> <<>>]
    /\ rl_pc = "call"

\* the call (lines 257-334)
ResolveCall ==
    /\ rl_pc = "call"
    /\ rl_out' = _get_resolved_location(rl_in.unresolved, rl_in.exedir, rl_in.selfdir,
                                        rl_in.rpaths_transitive, rl_in.LD_LIBRARY_PATH,
                                        rl_in.default_paths, rl_in.sysroot,
                                        rl_in.resolved_rpath)
    /\ rl_pc' = "returned"
    /\ UNCHANGED <<rl_in, rl_rec, engineVars, glVars, arVars, mzVars>>

\* what the caller does with the tuple (lines 404-411)
ResolveRecord ==
    /\ rl_pc = "returned"
    /\ rl_rec' = RecordResolved(rl_in.unresolved, rl_out, rl_in.filename2,
                                rl_in.resolve_filenames, rl_in.recurse, rl_rec)
    /\ rl_pc' = "recorded"
    /\ UNCHANGED <<rl_in, rl_out, engineVars, glVars, arVars, mzVars>>

-----------------------------------------------------------------------------
(* get_linkages *)

\* the names the module binds at its top level: its imports, assignments,
\* functions and classes
ModuleGlobals ==
    { "Hashable", "hashlib", "json", "os", "join", "sys", "threading", "string_types",
      "inspect_linkages_pyldd", "codefile_type_pyldd", "codefile_type", "have_lief",
      "lief", "is_string", "ensure_binary", "nm", "codefile_type_liefldd",
      "_trim_sysroot", "get_libraries", "get_rpaths", "get_runpaths",
      "_inspect_linkages_this", "to_os_varnames", "from_os_varnames", "_get_path_dirs",
      "get_uniqueness_key", "_get_resolved_location", "inspect_linkages_lief",
      "get_linkages", "get_imports", "ctypes", "c_uint8", "c_uint32", "n_type_bits",
      "n_type", "n_stab_bits", "n_stab", "get_static_lib_exports", "get_exports",
      "get_relocations", "get_symbols", "memoized_by_arg0_inode",
      "memoized_by_arg0_filehash", "get_exports_memoized", "get_imports_memoized",
      "get_relocations_memoized", "get_symbols_memoized", "get_linkages_memoized",
      "glob", "static_lib" }

\* the names get_linkages assigns, which Python therefore treats as its locals
GetLinkagesLocals ==
    {"filename", "resolve_filenames", "recurse", "sysroot", "envroot", "arch",
     "result_pyldd"}

\* reading a name inside a function: its value, or the exception Python raises
LoadName(name, locals, localNames) ==
    IF name \in DOMAIN locals THEN [ok |-> TRUE, value |-> locals[name]]
    ELSE IF name \in localNames THEN [ok |-> FALSE, exc |-> "UnboundLocalError"]
    ELSE IF name \in ModuleGlobals THEN [ok |-> TRUE, value |-> {<<"module", name>>}]
    ELSE [ok |-> FALSE, exc |-> "NameError"]

\* the library names the secondary inspector (pyldd) may report
PylddLibs == {<<"B">>, <<"C">>, <<"$RPATH", "/", "B">>}

GetLinkagesInputs ==
    [ have_lief : BOOLEAN,
      codefile_type : {"DLLfile", "EXEfile", "machofile", "elffile", "None"},
      pyldd : SUBSET PylddLibs ]

GlIdle ==
    /\ gl_in = [have_lief |-> TRUE]
    /\ gl_locals = <<>>
    /\ gl_pc = "idle"
    /\ gl_result = {}
    /\ gl_err = "none"

GlInit ==
    /\ gl_in \in GetLinkagesInputs
    /\ gl_locals = <<>>
    /\ gl_pc = "l420"
    /\ gl_result = {}
    /\ gl_err = "none"

\* codefile_type(filename) not in ('DLLfile', 'EXEfile')
NotPE(t) == t \notin {"DLLfile", "EXEfile"}

\* lines 420-422
GL_FirstPyldd ==
    /\ gl_pc = "l420"
    /\ gl_locals' = IF NotPE(gl_in.codefile_type)
                    THEN Put(gl_locals, "result_pyldd", gl_in.pyldd)
                    ELSE gl_locals
    /\ gl_pc' = "l423"
    /\ UNCHANGED <<gl_in, gl_result, gl_err, engineVars, rlVars, arVars, mzVars>>

\* lines 423-424
GL_HaveLief ==
    /\ gl_pc = "l423"
    /\ IF ~gl_in.have_lief
       THEN LET v == LoadName("result_pyldd", gl_locals, GetLinkagesLocals)
            IN  IF v.ok
                THEN gl_result' = v.value /\ gl_pc' = "returned" /\ gl_err' = gl_err
                ELSE gl_result' = gl_result /\ gl_pc' = "raised" /\ gl_err' = v.exc
       ELSE gl_pc' = "l425" /\ UNCHANGED <<gl_result, gl_err>>
    /\ UNCHANGED <<gl_in, gl_locals, engineVars, rlVars, arVars, mzVars>>

\* lines 425-431
GL_Compare ==
    /\ gl_pc = "l425"
    /\ IF NotPE(gl_in.codefile_type)
       THEN /\ gl_locals' = Put(gl_locals, "result_pyldd", gl_in.pyldd)
            /\ LET v == LoadName("result_lief", gl_locals', GetLinkagesLocals)
               IN  IF v.ok
                   THEN gl_pc' = "l432" /\ gl_err' = gl_err
                   ELSE gl_pc' = "raised" /\ gl_err' = v.exc
       ELSE gl_pc' = "l432" /\ UNCHANGED <<gl_locals, gl_err>>
    /\ UNCHANGED <<gl_in, gl_result, engineVars, rlVars, arVars, mzVars>>

\* line 432
GL_Return ==
    /\ gl_pc = "l432"
    /\ LET v == LoadName("result_lief", gl_locals, GetLinkagesLocals)
       IN  IF v.ok
           THEN gl_result' = v.value /\ gl_pc' = "returned" /\ gl_err' = gl_err
           ELSE gl_result' = gl_result /\ gl_pc' = "raised" /\ gl_err' = v.exc
    /\ UNCHANGED <<gl_in, gl_locals, engineVars, rlVars, arVars, mzVars>>

-----------------------------------------------------------------------------
(* get_static_lib_exports: the archive, seen as the members the scan of lines
   526-658 visits, each with the fields the scan reads *)

\* n_type_bits.N_STAB: bits 5-7 of the byte
n_type_N_STAB(asByte) == (asByte \div 32) % 8

\* n_type_bits.N_TYPE: bits 1-3 of the byte
n_type_N_TYPE(asByte) == (asByte \div 2) % 8

\* n_stab_bits.N_DESC: bits 16-23 of the 32-bit word
n_stab_N_DESC(asUint32) == (asUint32 \div 65536) % 256

UNDEFINED == 5

\* the archive signature
ArchiveMagic == "!<arch>\n"

\* s[:n]
Take(s, n) == SubSeq(s, 1, IF n < Len(s) THEN n ELSE Len(s))

\* bytes.strip() of a header name padded with spaces
RECURSIVE Strip(_)
Strip(name) ==
    IF name # <<>> /\ name[Len(name)] = " " THEN Strip(SubSeq(name, 1, Len(name) - 1))
    ELSE IF name # <<>> /\ name[1] = " " THEN Strip(Tail(name))
    ELSE name

\* type (lines 535-548)
MemberType(name) ==
    IF StartsWith(name, <<"#1/">>) THEN "BSD"
    ELSE IF StartsWith(name, <<"/", "/">>) THEN "GNU_TABLE"
    ELSE IF Strip(name) = <<"/">> THEN "GNU_SYMBOLS"
    ELSE IF StartsWith(name, <<"/">>) THEN "GNU"
    ELSE "NORMAL"

\* what a call yields: a list, the 4-tuple of line 657, or an exception
ListResult(l) == [kind |-> "list", value |-> l]

Raise(e) == [kind |-> "raise", exc |-> e]

\* the loop of lines 578-639: entry i is appended when its STAB bits are set
\* and N_DESC is not 0x20; acc holds filtered_syms and filtered_ranlib_structs
RECURSIVE FilterLoop(_, _, _, _, _)
FilterLoop(i, nsymbols, syms, ranlib_structs, acc) ==
    IF i = nsymbols THEN acc
    ELSE IF i >= Len(syms) THEN Raise("IndexError")
    ELSE LET ranlib_struct == ranlib_structs[i + 1]
             asByte == ranlib_struct[1] % 256
         IN  IF n_type_N_STAB(asByte) # 0 /\ n_stab_N_DESC(ranlib_struct[1]) # 32
             THEN FilterLoop(i + 1, nsymbols, syms, ranlib_structs,
                             [kind |-> "ok",
                              filtered_syms |-> Append(acc.filtered_syms, syms[i + 1]),
                              filtered_ranlib_structs |->
                                  Append(acc.filtered_ranlib_structs, ranlib_struct)])
             ELSE FilterLoop(i + 1, nsymbols, syms, ranlib_structs, acc)

\* the else clause of the for loop (lines 640-652), run once when the loop
\* ends, with i and ntype as the last iteration left them
ForElse(nsymbols, syms, ranlib_structs, acc) ==
    IF acc.kind = "raise" THEN acc
    ELSE IF nsymbols = 0 THEN Raise("UnboundLocalError")
    ELSE LET i == nsymbols - 1
             asByte == ranlib_structs[i + 1][1] % 256
         IN  IF n_type_N_TYPE(asByte) # UNDEFINED
             THEN [kind |-> "ok",
                   filtered_syms |-> Append(acc.filtered_syms, syms[i + 1]),
                   filtered_ranlib_structs |->
                       Append(acc.filtered_ranlib_structs, ranlib_structs[i + 1])]
             ELSE acc

\* a __.SYMDEF member (lines 557-657)
ParseSymdef(m) ==
    LET nsymbols == m.size_ranlib_structs \div 8
        ranlib_structs == Take(m.ranlib, nsymbols)
        syms == Take(m.strtab, nsymbols)
        filtered == ForElse(nsymbols, syms, ranlib_structs,
                            FilterLoop(0, nsymbols, syms, ranlib_structs,
                                       [kind |-> "ok", filtered_syms |-> <<>>,
                                        filtered_ranlib_structs |-> <<>>]))
    IN  IF filtered.kind = "raise" THEN filtered
        ELSE [kind |-> "tuple",
              filtered_syms |-> filtered.filtered_syms,
              filtered_ranlib_structs |-> filtered.filtered_ranlib_structs,
              syms |-> syms,
              ranlib_structs |-> ranlib_structs]

\* the scan of lines 526-660 over the members
RECURSIVE ParseMembers(_)
ParseMembers(members) ==
    IF members = <<>> THEN ListResult(<<>>)
    ELSE LET m == Head(members)
             type == MemberType(m.name)
             name == IF type = "BSD" THEN m.bsd_name ELSE m.name
         IN  IF ~m.size_ok THEN ListResult(<<>>)
             ELSE IF type = "GNU_SYMBOLS" THEN ListResult(Take(m.strtab, m.nsymbols))
             ELSE IF StartsWith(name, <<"__.SYMDEF">>) THEN ParseSymdef(m)
             ELSE ParseMembers(Tail(members))

\* the names a module-level statement or the interpreter binds for every function
GlobalNames(python) ==
    ModuleGlobals \cup (IF python = 2 THEN {"file", "basestring"} ELSE {})

\* get_static_lib_exports(file) (lines 498-660): open raises for a missing
\* file, and line 509 reads the global name struct
get_static_lib_exports(in) ==
    IF ~in.exists THEN Raise("IOError")
    ELSE IF "struct" \notin GlobalNames(in.python) THEN Raise("NameError")
    ELSE IF in.content.signature # ArchiveMagic THEN ListResult(<<>>)
    ELSE ParseMembers(in.content.members)

-----------------------------------------------------------------------------
(* get_exports, and the calls the two functions are given *)

\* the most entries a symbol table of the archives has
MaxSyms == 2

\* symbol names, each a sequence of characters
SymbolNames == <<<<"a">>, <<"b">>>>

\* nlist words: a non-STAB entry with N_TYPE 7, one with N_TYPE 5, a STAB entry
\* with N_DESC 0x20 and one with N_DESC 0x22
EntryWords == {15, 11, 2097188, 2228260}

NormalMember ==
    [name |-> <<"o", "/", " ">>, size_ok |-> TRUE, bsd_name |-> <<>>, nsymbols |-> 0,
     size_ranlib_structs |-> 0, ranlib |-> <<>>, strtab |-> <<>>]

BadSizeMember == [NormalMember EXCEPT !.size_ok = FALSE]

\* the member named '/' whose name table lists names
GnuIndexMember(names) ==
    [NormalMember EXCEPT !.name = <<"/", " ">>, !.nsymbols = Len(names),
                         !.strtab = names \o <<EmptyStr>>]

\* the '#1/20' member named __.SYMDEF SORTED whose ranlib entries carry words
SymdefMember(words) ==
    [NormalMember EXCEPT !.name = <<"#1/", "20", " ">>,
                         !.bsd_name = <<"__.SYMDEF", " SORTED">>,
                         !.size_ranlib_structs = 8 * Len(words),
                         !.ranlib = [i \in 1..Len(words) |-> <<words[i], 0>>],
                         !.strtab = Take(SymbolNames, Len(words)) \o <<EmptyStr>>]

Archive(members) == [signature |-> ArchiveMagic, members |-> members]

NotAnArchive == [signature |-> "garbage", members |-> <<>>]

ArchiveContents ==
    {NotAnArchive, Archive(<<NormalMember>>), Archive(<<BadSizeMember>>)}
    \cup {Archive(<<GnuIndexMember(Take(SymbolNames, n)), NormalMember>>) : n \in 0..MaxSyms}
    \cup {Archive(<<SymdefMember(ws), NormalMember>>) :
             ws \in UNION {[1..n -> EntryWords] : n \in 0..MaxSyms}}

\* what running nm gives: its exported names, or OSError
NmOutcomes ==
    {[ok |-> FALSE, exports |-> <<>>]}
    \cup {[ok |-> TRUE, exports |-> e] : e \in {<<>>, <<<<"a">>>>, <<<<"a">>, <<"z">>>>}}

ArInputs ==
    {in \in [ entry : {"get_exports", "get_static_lib_exports"},
              arg_is_str : BOOLEAN,
              suffix : {".a", ".lib", ".so"},
              exists : BOOLEAN,
              python : {2, 3},
              nm : NmOutcomes,
              lief_exports : {NoneV, <<>>, <<<<"f">>>>},
              content : ArchiveContents ] :
        /\ (in.entry = "get_static_lib_exports" =>
               in.arg_is_str /\ ~in.nm.ok /\ in.lief_exports = NoneV)
        /\ (~in.exists => in.content = NotAnArchive)
        /\ (~in.arg_is_str => in.lief_exports # NoneV /\ in.exists)}

\* the names get_exports assigns
GetExportsLocals ==
    {"filename", "arch", "result", "subprocess", "flags", "out", "_", "results",
     "exports", "exports2", "flags2", "exports2_all", "flags2_all", "diff1", "diff2",
     "error_count", "item", "idx", "ntype", "binary"}

ArIdle ==
    /\ ar_in = [entry |-> "none"]
    /\ ar_locals = <<>>
    /\ ar_pc = "idle"
    /\ ar_result = ListResult(<<>>)
    /\ ar_err = "none"

ArInit ==
    /\ ar_in \in ArInputs
    /\ ar_locals = <<>>
    /\ ar_pc = IF ar_in.entry = "get_exports" THEN "l664" ELSE "l503"
    /\ ar_result = ListResult(<<>>)
    /\ ar_err = "none"

\* a direct call of get_static_lib_exports (lines 498-660)
GSLE_Call ==
    /\ ar_pc = "l503"
    /\ LET r == get_static_lib_exports(ar_in)
       IN  IF r.kind = "raise"
           THEN ar_pc' = "raised" /\ ar_err' = r.exc /\ ar_result' = ar_result
           ELSE ar_pc' = "returned" /\ ar_err' = ar_err /\ ar_result' = r
    /\ UNCHANGED <<ar_in, ar_locals, engineVars, rlVars, glVars, mzVars>>

\* lines 664-666
GE_Enter ==
    /\ ar_pc = "l664"
    /\ ar_locals' = Put(ar_locals, "result", ListResult(<<>>))
    /\ ar_pc' = IF /\ ar_in.arg_is_str
                   /\ \/ ar_in.exists /\ ar_in.suffix = ".a"
                      \/ ar_in.suffix = ".lib"
                THEN "l676" ELSE "l733"
    /\ UNCHANGED <<ar_in, ar_result, ar_err, engineVars, rlVars, glVars, mzVars>>

\* lines 676-689: nm, and the handler of OSError, which reads the name file
GE_Nm ==
    /\ ar_pc = "l676"
    /\ IF ar_in.nm.ok
       THEN /\ ar_locals' = Put(Put(ar_locals, "exports", ar_in.nm.exports),
                                "result", ListResult(ar_in.nm.exports))
            /\ ar_pc' = "l693"
            /\ ar_err' = ar_err
       ELSE IF "file" \in GlobalNames(ar_in.python)
       THEN ar_pc' = "l693" /\ UNCHANGED <<ar_locals, ar_err>>
       ELSE ar_pc' = "raised" /\ ar_err' = "NameError" /\ UNCHANGED ar_locals
    /\ UNCHANGED <<ar_in, ar_result, engineVars, rlVars, glVars, mzVars>>

\* set(x) for a str x: its characters
CharSet(x) == {<<x[i]>> : i \in 1..Len(x)}

\* item in x, for strs
IsSubstr(item, x) ==
    \E k \in 0..(Len(x) - Len(item)) : SubSeq(x, k + 1, k + Len(item)) = item

\* x.index(item), for strs
IndexOf(item, x) ==
    CHOOSE k \in 0..(Len(x) - Len(item)) :
        /\ SubSeq(x, k + 1, k + Len(item)) = item
        /\ \A j \in 0..(k - 1) : SubSeq(x, j + 1, j + Len(item)) # item

\* the exceptions the diagnostic loops of lines 707-731 can end in; when the
\* four values are strs (a list of four names was unpacked), every item raises
DiagnosticErrors(isStr, diff1, diff2, exports2, flags2, exports2_all, flags2_all) ==
    IF ~isStr
    THEN IF \E item \in diff1 : item \notin Range(exports2_all) THEN {"ValueError"} ELSE {}
    ELSE IF diff1 # {}
    THEN {IF ~IsSubstr(item, exports2_all) THEN "ValueError"
          ELSE IF IndexOf(item, exports2_all) >= Len(flags2_all) THEN "IndexError"
          ELSE "ValueError" : item \in diff1}
    ELSE {IF IndexOf(item, exports2) >= Len(flags2) THEN "IndexError" ELSE "TypeError" :
             item \in diff2}

\* lines 693-731: the parser is called, its value unpacked into four names and
\* compared with nm's
GE_StaticLib ==
    /\ ar_pc = "l693"
    /\ LET r == get_static_lib_exports(ar_in)
           isStr == r.kind = "list"
           exports2 == IF isStr THEN r.value[1] ELSE r.filtered_syms
           flags2 == IF isStr THEN r.value[2] ELSE r.filtered_ranlib_structs
           exports2_all == IF isStr THEN r.value[3] ELSE r.syms
           flags2_all == IF isStr THEN r.value[4] ELSE r.ranlib_structs
           result == [kind |-> IF isStr THEN "str" ELSE "list", value |-> exports2]
           exports == LoadName("exports", ar_locals, GetExportsLocals)
           set2 == IF isStr THEN CharSet(exports2) ELSE Range(exports2)
           diff1 == Range(exports.value) \ set2
           diff2 == set2 \ Range(exports.value)
           errs == IF diff1 = {} /\ diff2 = {} THEN {}
                   ELSE DiagnosticErrors(isStr, diff1, diff2, exports2, flags2,
                                         exports2_all, flags2_all)
       IN  IF r.kind = "raise"
           THEN ar_pc' = "raised" /\ ar_err' = r.exc /\ UNCHANGED ar_locals
           ELSE IF isStr /\ Len(r.value) # 4
           THEN ar_pc' = "raised" /\ ar_err' = "ValueError" /\ UNCHANGED ar_locals
           ELSE /\ ar_locals' = Put(ar_locals, "result", result)
                /\ IF ~exports.ok
                   THEN ar_pc' = "raised" /\ ar_err' = exports.exc
                   ELSE IF errs = {}
                   THEN ar_pc' = "l733" /\ ar_err' = ar_err
                   ELSE ar_pc' = "raised" /\ ar_err' \in errs
    /\ UNCHANGED <<ar_in, ar_result, engineVars, rlVars, glVars, mzVars>>

\* lines 733-737: with an empty result, the exported functions lief reports
GE_Fallback ==
    /\ ar_pc = "l733"
    /\ LET result == ar_locals["result"]
           binary_truthy == IF ~ar_in.arg_is_str THEN TRUE
                            ELSE ar_in.exists /\ ar_in.lief_exports # NoneV
       IN  ar_result' = IF result.value = <<>> /\ binary_truthy
                        THEN ListResult(ar_in.lief_exports)
                        ELSE result
    /\ ar_pc' = "returned"
    /\ UNCHANGED <<ar_in, ar_locals, ar_err, engineVars, rlVars, glVars, mzVars>>

-----------------------------------------------------------------------------
(* The member scan of get_static_lib_exports (lines 504-551, 660-662), by
   offsets *)

\* struct.calcsize(header_fmt) (line 524)
header_sz == 60

\* the most members an archive has
MaxMembers == 2

\* the most iterations of the scan that are followed
MaxIterations == 3

\* the values the size field of a member header may declare
ScanSizes == {-61, -60, -1, 0, 2, 4}

\* a member as the archive holds it: the kind of its name field, the size its
\* header declares and the number of bytes that really follow the header
\* (a BSD member's data starts with its name, which is not __.SYMDEF)
ScanMembers ==
    {m \in [kind : {"NORMAL", "BSD", "GNU_SYMBOLS"}, size : ScanSizes, data : {0, 2}] :
        m.kind = "BSD" => m.data = 2}

\* the length of the name that starts the data of a BSD member (line 538)
NameLen(m) == IF m.kind = "BSD" THEN 2 ELSE 0

\* the offset of the header of member k: the magic, then each member's header
\* and data, on even offsets
RECURSIVE OffsetOf(_, _)
OffsetOf(members, k) ==
    IF k = 1 THEN 8
    ELSE OffsetOf(members, k - 1) + header_sz + members[k - 1].data

\* len(content) (line 508)
FileSize(members) == OffsetOf(members, Len(members) + 1)

\* what struct.unpack(header_fmt, content[index:index + header_sz]) and
\* int(size) find at an offset: a member's header, or bytes that are no header
\* and hold no number
NoHeader == [kind |-> "none", size |-> 0, data |-> 0]

HeaderAt(members, index) ==
    IF \E k \in 1..Len(members) : OffsetOf(members, k) = index
    THEN members[CHOOSE k \in 1..Len(members) : OffsetOf(members, k) = index]
    ELSE NoHeader

\* the archives scanned, and whether the name struct resolves when line 509
\* reads it: the module binds no such name itself (ModuleGlobals), and the scan
\* is followed as well for a module that has been given the name
ScanInputs ==
    [entry : {"scan"},
     struct_bound : BOOLEAN,
     members : UNION {[1..n -> ScanMembers] : n \in 0..MaxMembers}]

ScanInit ==
    /\ ar_in \in ScanInputs
    /\ ar_locals = [index |-> 0, before |-> 0, iterations |-> 0]
    /\ ar_pc = "l504"
    /\ ar_result = ListResult(<<>>)
    /\ ar_err = "none"

\* lines 504-524: the content is read and the signature checked
SC_Begin ==
    /\ ar_pc = "l504"
    /\ IF ~ar_in.struct_bound /\ "struct" \notin ModuleGlobals
       THEN ar_pc' = "raised" /\ ar_err' = "NameError" /\ UNCHANGED ar_locals
       ELSE /\ ar_pc' = "l525"
            /\ ar_locals' = [ar_locals EXCEPT !.index = 8, !.before = 0]
            /\ UNCHANGED ar_err
    /\ UNCHANGED <<ar_in, ar_result, engineVars, rlVars, glVars, mzVars>>

\* one iteration of the while loop (lines 525-551, 660)
SC_Iterate ==
    /\ ar_pc = "l525"
    /\ ar_locals.index + header_sz < FileSize(ar_in.members)
    /\ ar_locals.iterations < MaxIterations
    /\ LET index == IF ar_locals.index % 2 = 1 THEN ar_locals.index + 1
                    ELSE ar_locals.index
           h == HeaderAt(ar_in.members, index)
           name_len == NameLen(h)
       IN  IF index < 0
           THEN ar_pc' = "raised" /\ ar_err' = "struct.error"
                /\ UNCHANGED <<ar_locals, ar_result>>
           ELSE IF h.kind = "none"
           THEN ar_pc' = "returned" /\ ar_result' = ListResult(<<>>)
                /\ UNCHANGED <<ar_locals, ar_err>>
           ELSE IF h.kind = "GNU_SYMBOLS"
           THEN ar_pc' = "returned" /\ ar_result' = ListResult(<<>>)
                /\ ar_locals' = [ar_locals EXCEPT !.index = index + header_sz + name_len]
                /\ UNCHANGED ar_err
           ELSE /\ ar_locals' = [index |-> (index + header_sz + name_len)
                                            + (h.size - name_len),
                                 before |-> ar_locals.index,
                                 iterations |-> ar_locals.iterations + 1]
                /\ UNCHANGED <<ar_pc, ar_err, ar_result>>
    /\ UNCHANGED <<ar_in, engineVars, rlVars, glVars, mzVars>>

\* the loop test fails (line 525): lines 661-662
SC_End ==
    /\ ar_pc = "l525"
    /\ ~(ar_locals.index + header_sz < FileSize(ar_in.members))
    /\ ar_pc' = "returned"
    /\ ar_result' = ListResult(<<>>)
    /\ UNCHANGED <<ar_in, ar_locals, ar_err, engineVars, rlVars, glVars, mzVars>>

-----------------------------------------------------------------------------
(* memoized_by_arg0_inode and memoized_by_arg0_filehash: one cache instance,
   called from two threads *)

Threads == {"t1", "t2"}

\* the most calls made on the instance
MaxCalls == 2

\* a Python value: its type and its items (a str has one item, its text)
PyValue(type, value) == [type |-> type, value |-> value]

\* an item that stands for an inner list
UnhashableAtoms == {"[]"}

\* isinstance(arg, Hashable) (lines 822, 866)
IsHashableType(v) == v.type \in {"str", "int", "tuple"}

\* hash(v) succeeds: a tuple hashes its items
HashOk(v) ==
    /\ IsHashableType(v)
    /\ v.type = "tuple" => \A i \in 1..Len(v.value) : v.value[i] \notin UnhashableAtoms

\* the files the calls name, with their inode numbers and content digests:
\* f1link is a hard link to f1, f2copy a copy of f1, f3 another file
MzFiles == {"f1", "f1link", "f2copy", "f3"}

st_ino(file) == IF file \in {"f1", "f1link"} THEN "ino1"
                ELSE IF file = "f2copy" THEN "ino2" ELSE "ino3"

hexdigest(file) == IF file \in {"f1", "f1link", "f2copy"} THEN "sha_a" ELSE "sha_b"

\* the first argument's replacement (lines 817-819, 855-863)
FileIdentity(variant, file) ==
    IF variant = "inode" THEN PyValue("int", <<st_ino(file)>>)
    ELSE PyValue("str", <<hexdigest(file)>>)

\* the loop of lines 815-827 (853-871) from argument i on: the normalized
\* arguments, the fall back to the direct call, or the exception of os.stat or open
RECURSIVE NormalizeArgs(_, _, _, _)
NormalizeArgs(variant, argv, i, newargs) ==
    IF i > Len(argv) THEN [kind |-> "ok", newargs |-> newargs]
    ELSE IF i = 1 /\ argv[1].value[1] \notin MzFiles THEN [kind |-> "raise", exc |-> "OSError"]
    ELSE LET arg == IF i = 1 THEN FileIdentity(variant, argv[1].value[1]) ELSE argv[i]
         IN  IF arg.type = "list"
             THEN NormalizeArgs(variant, argv, i + 1,
                                Append(newargs, PyValue("tuple", arg.value)))
             ELSE IF ~IsHashableType(arg) THEN [kind |-> "direct"]
             ELSE NormalizeArgs(variant, argv, i + 1, Append(newargs, arg))

\* kw.items()
KwItems(kw) == {<<n, kw[n]>> : n \in DOMAIN kw}

\* key (lines 828-829, 872-873)
MakeKey(newargs, kw) == <<newargs, KwItems(kw)>>

\* hashing the key hashes every normalized argument
KeyHashOk(key) == \A i \in 1..Len(key[1]) : HashOk(key[1][i])

\* a lock that never blocks: the variant mutual exclusion is tested against
LockNeverBlocks(lock) == TRUE

\* threading.Lock: with self.lock enters only when nobody holds the lock
\* (lines 830, 874)
LockFree(lock) == lock = "free"

\* a cache that never answers: the variant the reuse rule is tested against
CacheHitNever(key, cache) == FALSE

\* key in self.cache (lines 831, 875)
CacheHit(key, cache) == key \in DOMAIN cache

NoKey == <<<<>>, {}>>

NoRet == <<"none", "none">>

\* what the wrapped operation can do: return a value or raise
FuncOutcomes == {<<"value", "v1">>, <<"value", "v2">>, <<"raise", "Exception">>}

MzArg0(file) == PyValue("str", <<file>>)

\* the calls made: the same file under two names with the list and the tuple
\* spelling of one argument, a copy, another file, a keyword argument, the
\* arguments that cannot be hashed, and a missing file
MzCalls ==
    {[args |-> <<MzArg0("f1"), PyValue("list", <<"x">>)>>, kw |-> <<>>],
     [args |-> <<MzArg0("f1link"), PyValue("tuple", <<"x">>)>>, kw |-> <<>>],
     [args |-> <<MzArg0("f2copy"), PyValue("tuple", <<"x">>)>>, kw |-> <<>>],
     [args |-> <<MzArg0("f3"), PyValue("tuple", <<"x">>)>>, kw |-> <<>>],
     [args |-> <<MzArg0("f1")>>, kw |-> [arch |-> PyValue("str", <<"native">>)]],
     [args |-> <<MzArg0("f1"), PyValue("dict", <<>>)>>, kw |-> <<>>],
     [args |-> <<MzArg0("f1"), PyValue("list", <<"[]">>)>>, kw |-> <<>>],
     [args |-> <<MzArg0("f1"), PyValue("tuple", <<"[]">>)>>, kw |-> <<>>],
     [args |-> <<MzArg0("f1")>>, kw |-> [arch |-> PyValue("list", <<"x">>)]],
     [args |-> <<MzArg0("missing")>>, kw |-> <<>>]}

NoCall == [args |-> <<>>, kw |-> <<>>]

MzIdle ==
    /\ mz_variant = "none"
    /\ mz_cache = <<>>
    /\ mz_lock = "free"
    /\ mz_pc = [t \in Threads |-> "off"]
    /\ mz_call = [t \in Threads |-> NoCall]
    /\ mz_key = [t \in Threads |-> NoKey]
    /\ mz_ret = [t \in Threads |-> NoRet]
    /\ mz_invoked = [t \in Threads |-> FALSE]
    /\ mz_prior = [t \in Threads |-> {}]
    /\ mz_returned = {}
    /\ mz_ncalls = 0

\* __init__ (lines 809-812, 847-850)
MzInit ==
    /\ mz_variant \in {"inode", "filehash"}
    /\ mz_cache = <<>>
    /\ mz_lock = "free"
    /\ mz_pc = [t \in Threads |-> "idle"]
    /\ mz_call = [t \in Threads |-> NoCall]
    /\ mz_key = [t \in Threads |-> NoKey]
    /\ mz_ret = [t \in Threads |-> NoRet]
    /\ mz_invoked = [t \in Threads |-> FALSE]
    /\ mz_prior = [t \in Threads |-> {}]
    /\ mz_returned = {}
    /\ mz_ncalls = 0

mzOther == <<engineVars, rlVars, glVars, arVars, mz_variant>>

\* a thread calls the memoized operation
MZ_Call(t) ==
    /\ mz_pc[t] = "idle"
    /\ mz_ncalls < MaxCalls
    /\ \E c \in MzCalls : mz_call' = [mz_call EXCEPT ![t] = c]
    /\ mz_pc' = [mz_pc EXCEPT ![t] = "normalize"]
    /\ mz_key' = [mz_key EXCEPT ![t] = NoKey]
    /\ mz_ret' = [mz_ret EXCEPT ![t] = NoRet]
    /\ mz_invoked' = [mz_invoked EXCEPT ![t] = FALSE]
    /\ mz_prior' = [mz_prior EXCEPT ![t] = mz_returned]
    /\ mz_ncalls' = mz_ncalls + 1
    /\ UNCHANGED <<mz_cache, mz_lock, mz_returned, mzOther>>

\* lines 815-829 (853-873): the arguments are normalized and the key is built
MZ_Normalize(t) ==
    /\ mz_pc[t] = "normalize"
    /\ LET n == NormalizeArgs(mz_variant, mz_call[t].args, 1, <<>>)
           kw == mz_call[t].kw
       IN  IF n.kind = "raise"
           THEN /\ mz_ret' = [mz_ret EXCEPT ![t] = <<"raise", n.exc>>]
                /\ mz_pc' = [mz_pc EXCEPT ![t] = "idle"]
                /\ UNCHANGED mz_key
           ELSE IF n.kind = "direct"
           THEN /\ mz_pc' = [mz_pc EXCEPT ![t] = "direct"]
                /\ UNCHANGED <<mz_ret, mz_key>>
           ELSE IF \E name \in DOMAIN kw : ~HashOk(kw[name])
           THEN /\ mz_ret' = [mz_ret EXCEPT ![t] = <<"raise", "TypeError">>]
                /\ mz_pc' = [mz_pc EXCEPT ![t] = "idle"]
                /\ UNCHANGED mz_key
           ELSE /\ mz_key' = [mz_key EXCEPT ![t] = MakeKey(n.newargs, kw)]
                /\ mz_pc' = [mz_pc EXCEPT ![t] = "acquire"]
                /\ UNCHANGED mz_ret
    /\ UNCHANGED <<mz_cache, mz_lock, mz_call, mz_invoked, mz_prior, mz_returned,
                   mz_ncalls, mzOther>>

\* line 825 (869): return self.func(*args, **kw)
MZ_Direct(t) ==
    /\ mz_pc[t] = "direct"
    /\ \E o \in FuncOutcomes : mz_ret' = [mz_ret EXCEPT ![t] = o]
    /\ mz_invoked' = [mz_invoked EXCEPT ![t] = TRUE]
    /\ mz_pc' = [mz_pc EXCEPT ![t] = "idle"]
    /\ UNCHANGED <<mz_cache, mz_lock, mz_call, mz_key, mz_prior, mz_returned, mz_ncalls,
                   mzOther>>

\* line 830 (874): with self.lock
MZ_Acquire(t) ==
    /\ mz_pc[t] = "acquire"
    /\ LockFree(mz_lock)
    /\ mz_lock' = t
    /\ mz_pc' = [mz_pc EXCEPT ![t] = "check"]
    /\ UNCHANGED <<mz_cache, mz_call, mz_key, mz_ret, mz_invoked, mz_prior, mz_returned,
                   mz_ncalls, mzOther>>

\* lines 831-832 (875-876): the key is hashed and looked up; a hit returns the
\* stored value and leaves the with block
MZ_Check(t) ==
    /\ mz_pc[t] = "check"
    /\ IF ~KeyHashOk(mz_key[t])
       THEN /\ mz_ret' = [mz_ret EXCEPT ![t] = <<"raise", "TypeError">>]
            /\ mz_pc' = [mz_pc EXCEPT ![t] = "idle"]
            /\ mz_lock' = "free"
            /\ UNCHANGED mz_returned
       ELSE IF CacheHit(mz_key[t], mz_cache)
       THEN /\ mz_ret' = [mz_ret EXCEPT ![t] = <<"value", mz_cache[mz_key[t]]>>]
            /\ mz_pc' = [mz_pc EXCEPT ![t] = "idle"]
            /\ mz_lock' = "free"
            /\ mz_returned' = mz_returned \cup {mz_key[t]}
       ELSE /\ mz_pc' = [mz_pc EXCEPT ![t] = "func"]
            /\ UNCHANGED <<mz_ret, mz_lock, mz_returned>>
    /\ UNCHANGED <<mz_cache, mz_call, mz_key, mz_invoked, mz_prior, mz_ncalls, mzOther>>

\* line 834 (878): value = self.func(*args, **kw), inside the with block
MZ_Func(t) ==
    /\ mz_pc[t] = "func"
    /\ mz_invoked' = [mz_invoked EXCEPT ![t] = TRUE]
    /\ \E o \in FuncOutcomes :
         /\ mz_ret' = [mz_ret EXCEPT ![t] = o]
         /\ IF o[1] = "raise"
            THEN mz_pc' = [mz_pc EXCEPT ![t] = "idle"] /\ mz_lock' = "free"
            ELSE mz_pc' = [mz_pc EXCEPT ![t] = "store"] /\ mz_lock' = mz_lock
    /\ UNCHANGED <<mz_cache, mz_call, mz_key, mz_prior, mz_returned, mz_ncalls, mzOther>>

\* lines 835-836 (879-880): the value is stored and returned, and the with
\* block is left
MZ_Store(t) ==
    /\ mz_pc[t] = "store"
    /\ mz_cache' = Put(mz_cache, mz_key[t], mz_ret[t][2])
    /\ mz_lock' = "free"
    /\ mz_pc' = [mz_pc EXCEPT ![t] = "idle"]
    /\ mz_returned' = mz_returned \cup {mz_key[t]}
    /\ UNCHANGED <<mz_call, mz_key, mz_ret, mz_invoked, mz_prior, mz_ncalls, mzOther>>

-----------------------------------------------------------------------------
(* Specifications *)

\* inspect_linkages_lief on every world and argument combination
Init == EngineInit /\ RlIdle /\ GlIdle /\ ArIdle /\ MzIdle

Next == Begin \/ WhileTest \/ ForNext \/ PeWalkStep \/ WalkStep \/ Expand

Spec == Init /\ [][Next]_vars

\* one call of _get_resolved_location on every input combination
InitResolve == EngineIdle /\ RlInit /\ GlIdle /\ ArIdle /\ MzIdle

NextResolve == ResolveCall \/ ResolveRecord

SpecResolve == InitResolve /\ [][NextResolve]_vars

\* get_linkages on every input combination
InitLinkages ==
    /\ fs = [disk |-> {}, bin |-> <<>>]
    /\ EngineIdle /\ RlIdle /\ GlInit /\ ArIdle /\ MzIdle

NextLinkages == GL_FirstPyldd \/ GL_HaveLief \/ GL_Compare \/ GL_Return

SpecLinkages == InitLinkages /\ [][NextLinkages]_vars

\* get_exports and get_static_lib_exports on every input combination
InitExports ==
    /\ fs = [disk |-> {}, bin |-> <<>>]
    /\ EngineIdle /\ RlIdle /\ GlIdle /\ ArInit /\ MzIdle

NextExports == GSLE_Call \/ GE_Enter \/ GE_Nm \/ GE_StaticLib \/ GE_Fallback

SpecExports == InitExports /\ [][NextExports]_vars

\* inspect_linkages_lief on the chain of binaries
InitChain == ChainInit /\ RlIdle /\ GlIdle /\ ArIdle /\ MzIdle

NextChain == Begin \/ WhileTest \/ ForNext \/ PeWalkStep \/ WalkStep \/ Expand

SpecChain == InitChain /\ [][NextChain]_vars

\* the member scan of get_static_lib_exports on every archive
InitScan ==
    /\ fs = [disk |-> {}, bin |-> <<>>]
    /\ EngineIdle /\ RlIdle /\ GlIdle /\ ScanInit /\ MzIdle

NextScan == SC_Begin \/ SC_Iterate \/ SC_End

SpecScan == InitScan /\ [][NextScan]_vars

\* two threads calling one memoized operation
InitMemo ==
    /\ fs = [disk |-> {}, bin |-> <<>>]
    /\ EngineIdle /\ RlIdle /\ GlIdle /\ ArIdle /\ MzInit

NextMemo ==
    \E t \in Threads :
        \/ MZ_Call(t)
        \/ MZ_Normalize(t)
        \/ MZ_Direct(t)
        \/ MZ_Acquire(t)
        \/ MZ_Check(t)
        \/ MZ_Func(t)
        \/ MZ_Store(t)

SpecMemo == InitMemo /\ [][NextMemo]_vars

-----------------------------------------------------------------------------
(* Properties of inspect_linkages_lief (Spec) *)

\* the uniqueness key of the binary at path f
KeyOf(f) == get_uniqueness_key(lief_parse(f))

\* C1: with recurse true, the pair the loop removes from the work queue is the
\* pair it examines, so no queued pair leaves the queue unexamined; and when
\* the queue is empty every existing resolved path has had its key expanded.
C1_EveryQueuedPairExamined ==
    args.recurse =>
        /\ popped = filename2
        /\ (pc = "done" /\ args.resolve_filenames) =>
               \A p \in results : Exists(p) => KeyOf(p) \in already_seen

\* following parents_by_filename from f reaches None within fuel steps
RECURSIVE ChainEnds(_, _)
ChainEnds(f, fuel) ==
    \/ ~Truthy(f)
    \/ /\ fuel > 0
       /\ f \in DOMAIN parents_by_filename
       /\ ChainEnds(parents_by_filename[f], fuel - 1)

\* C2: with resolve_filenames and recurse true, every parent-chain walk (the
\* nearest-executable walk for PE, the transitive RPATH walk for ELF and
\* Mach-O) reaches the root's None parent in finitely many steps: from the
\* file the walk stands on, the parent map leads to None in at most as many
\* steps as the map has entries.
C2_ParentChainWalksReachRoot ==
    (args.resolve_filenames /\ args.recurse /\ pc \in {"walk", "pe_walk"}) =>
        ChainEnds(tmp_filename, Cardinality(DOMAIN parents_by_filename))

\* C3: a node is expanded at most once per uniqueness key (no two expansions
\* of one query share a key), and the visited set only grows.
C3_ExpandedOncePerKey ==
    /\ [](\A i, j \in 1..Len(expanded) :
              KeyOf(expanded[i]) = KeyOf(expanded[j]) => i = j)
    /\ [][already_seen \subseteq already_seen']_vars

\* C3's case: the loop examines a file that was never expanded and skips it
\* because another file with the same key was
C3_SkippedSharedKey ==
    /\ pc = "for"
    /\ Truthy(filename2)
    /\ popped = filename2
    /\ filename2 \notin Range(expanded)
    /\ KeyOf(filename2) \in already_seen
    /\ \E i \in 1..Len(expanded) : KeyOf(expanded[i]) = KeyOf(filename2)

\* C4: called on a path that does not exist, the query raises no error and
\* returns the empty set, for every resolve_filenames and recurse.
C4_MissingPathReturnsEmpty ==
    ~Exists(args.filename) =>
        /\ err = "none"
        /\ pc # "error"
        /\ (pc = "done" => results = {})

-----------------------------------------------------------------------------
(* Properties of get_linkages (SpecLinkages) *)

\* C5: on every control path through get_linkages the value returned and the
\* values compared are assigned before they are read (no NameError and no
\* UnboundLocalError), and with the primary provider available the call
\* returns a result.
C5_AssignedBeforeRead ==
    /\ gl_err \notin {"NameError", "UnboundLocalError"}
    /\ gl_pc # "raised"

-----------------------------------------------------------------------------
(* Properties of _get_resolved_location (SpecResolve) *)

\* the candidate directories of a call, in the order of lines 306-309
Candidates ==
    TheseRpaths(rl_in.rpaths_transitive, rl_in.LD_LIBRARY_PATH, rl_in.default_paths,
                rl_in.sysroot, rl_in.resolved_rpath)

\* the path candidate directory c gives the call's token
CandidatePath(c) == Substitute(rl_in.unresolved, c, rl_in.selfdir, rl_in.exedir)

\* the call is for a token that starts with $RPATH and has returned
RpathTokenReturned ==
    /\ rl_pc \in {"returned", "recorded"}
    /\ StartsWith(rl_in.unresolved, <<"$RPATH">>)

\* no candidate directory yields a path that exists
NoCandidateExists ==
    \A i \in 1..Len(Candidates) : ~Exists(CandidatePath(Candidates[i]))

\* the not-found outcome: the token unchanged, no rpath, not in the sysroot, and
\* the literal token in the result set once the caller has recorded it
TokenReturnedUnchanged ==
    /\ rl_out = <<rl_in.unresolved, NoneV, "False">>
    /\ (rl_pc = "recorded" /\ rl_in.resolve_filenames) =>
           rl_in.unresolved \in rl_rec.results

OrderedCandidates ==
    rl_in.rpaths_transitive
    \o LdLibraryPaths(rl_in.LD_LIBRARY_PATH)
    \o DefaultCandidates(rl_in.default_paths, rl_in.sysroot)

\* C7: for a token that starts with $RPATH and no forced rpath, the call
\* returns the substitution of the first candidate, in the order transitive
\* RPATHs, LD_LIBRARY_PATH entries, default paths, whose substituted path
\* exists, with rpath_used equal to that candidate; a later candidate is never
\* returned when an earlier one exists.
C7_FirstExistingCandidateWins ==
    (RpathTokenReturned /\ ~Truthy(rl_in.resolved_rpath)) =>
        \A k \in 1..Len(OrderedCandidates) :
            (/\ Exists(CandidatePath(OrderedCandidates[k]))
             /\ \A j \in 1..(k - 1) : ~Exists(CandidatePath(OrderedCandidates[j])))
            => /\ rl_out[1] = CandidatePath(OrderedCandidates[k])
               /\ rl_out[2] = OrderedCandidates[k]

\* C7's case: a transitive RPATH and a later LD_LIBRARY_PATH or default
\* candidate both exist, and the call has returned the transitive RPATH's path
C7_EarlierAndLaterExist ==
    /\ RpathTokenReturned
    /\ ~Truthy(rl_in.resolved_rpath)
    /\ \E k \in 1..Len(rl_in.rpaths_transitive) :
         \E j \in (Len(rl_in.rpaths_transitive) + 1)..Len(OrderedCandidates) :
            /\ Exists(CandidatePath(OrderedCandidates[k]))
            /\ \A i \in 1..(k - 1) : ~Exists(CandidatePath(OrderedCandidates[i]))
            /\ Exists(CandidatePath(OrderedCandidates[j]))
            /\ OrderedCandidates[j] # OrderedCandidates[k]
            /\ rl_out[2] = OrderedCandidates[k]

-----------------------------------------------------------------------------
(* Properties of get_static_lib_exports and get_exports (SpecExports) *)

\* the call has ended, by a return or by an exception
ArEnded == ar_pc \in {"returned", "raised"}

\* the archive's first member is the GNU symbol index (name exactly '/')
GnuIndexArchive(c) ==
    /\ c.signature = ArchiveMagic
    /\ c.members # <<>>
    /\ Strip(c.members[1].name) = <<"/">>

\* the n names the symbol index lists, in the order of its name table
IndexNames(c) == SubSeq(c.members[1].strtab, 1, c.members[1].nsymbols)

\* C8: for every GNU-format archive whose symbol-index member lists n names,
\* get_static_lib_exports returns exactly those n names in the order of the
\* name table.
C8_GnuIndexNamesInOrder ==
    (/\ ar_in.entry = "get_static_lib_exports"
     /\ ArEnded
     /\ ar_in.exists
     /\ GnuIndexArchive(ar_in.content))
    => /\ ar_pc = "returned"
       /\ ar_result = ListResult(IndexNames(ar_in.content))

\* the archive's first member is a __.SYMDEF table
SymdefArchive(c) ==
    /\ c.signature = ArchiveMagic
    /\ c.members # <<>>
    /\ StartsWith(c.members[1].bsd_name, <<"__.SYMDEF">>)

\* the nlist policy: a STAB entry is kept iff N_DESC is not 0x20, a non-STAB
\* entry iff N_TYPE is not 0x5
PolicyKeeps(nlistWord) ==
    IF n_type_N_STAB(nlistWord % 256) # 0
    THEN n_stab_N_DESC(nlistWord) # 32
    ELSE n_type_N_TYPE(nlistWord % 256) # 5

\* the subsequence of syms whose ranlib entries pass the policy
RECURSIVE PolicySubsequence(_, _)
PolicySubsequence(syms, ranlib) ==
    IF syms = <<>> \/ ranlib = <<>> THEN <<>>
    ELSE (IF PolicyKeeps(Head(ranlib)[1]) THEN <<Head(syms)>> ELSE <<>>)
         \o PolicySubsequence(Tail(syms), Tail(ranlib))

\* the names a SYMDEF table should export
SymdefExports(c) ==
    PolicySubsequence(SubSeq(c.members[1].strtab, 1, Len(c.members[1].ranlib)),
                      c.members[1].ranlib)

\* C9: for every SYMDEF table (any number of ranlib entries, none included)
\* the filtered symbol list get_static_lib_exports returns is exactly the
\* subsequence of the unfiltered list, in order and each entry at most once,
\* of the entries that pass the nlist policy.
C9_SymdefFilteredByPolicy ==
    (/\ ar_in.entry = "get_static_lib_exports"
     /\ ArEnded
     /\ ar_in.exists
     /\ SymdefArchive(ar_in.content))
    => /\ ar_pc = "returned"
       /\ ar_result.kind = "tuple"
       /\ ar_result.filtered_syms = SymdefExports(ar_in.content)

\* the export list the parser's exit path stands for: the index names, the
\* SYMDEF names, or nothing for an invalid magic, a non-integral size or an
\* archive without a symbol index
ExpectedExports(c) ==
    IF GnuIndexArchive(c) THEN IndexNames(c)
    ELSE IF SymdefArchive(c) THEN SymdefExports(c)
    ELSE <<>>

\* C10: get_exports on an existing path ending .a or .lib raises no error and
\* returns the parser's export list for every exit path of the parser: the
\* symbol names for a GNU index or a SYMDEF table, and an empty sequence for
\* an invalid magic, a non-integral size field or an archive with no index.
C10_StaticLibExportsReturned ==
    (/\ ar_in.entry = "get_exports"
     /\ ArEnded
     /\ ar_in.arg_is_str
     /\ ar_in.exists
     /\ ar_in.suffix \in {".a", ".lib"})
    => /\ ar_pc = "returned"
       /\ ar_err = "none"
       /\ ExpectedExports(ar_in.content) # <<>> =>
              ar_result = ListResult(ExpectedExports(ar_in.content))
       /\ (ExpectedExports(ar_in.content) = <<>> /\ ar_in.lief_exports \in {NoneV, <<>>}) =>
              ar_result.value \in {<<>>, NoneV}

\* C11: whatever the external tool nm does (it is missing, it fails, it agrees
\* with the archive parser or it reports other symbols), get_exports on an
\* existing .a or .lib path raises no error and returns the archive parser's
\* filtered list.
C11_NmOutcomeNeverMatters ==
    (/\ ar_in.entry = "get_exports"
     /\ ar_in.arg_is_str
     /\ ar_in.exists
     /\ ar_in.suffix \in {".a", ".lib"})
    => /\ ar_pc # "raised"
       /\ (ar_pc = "returned" /\ ExpectedExports(ar_in.content) # <<>>) =>
              ar_result = ListResult(ExpectedExports(ar_in.content))

-----------------------------------------------------------------------------
(* C12: a key that has been returned once is answered from the cache *)

\* the thread's call went through the cache and has ended
KeyedCallEnded(t) == mz_pc[t] = "idle" /\ mz_key[t] # NoKey /\ mz_ret[t] # NoRet

\* the thread's call started after some call with the same key had returned
KeyReturnedBefore(t) == mz_key[t] # NoKey /\ mz_key[t] \in mz_prior[t]

\* C12: a call whose key had already been returned by an earlier call never
\* invokes the wrapped operation and returns the value stored under the key,
\* and no step replaces or removes the value stored under a key, for every
\* interleaving of the two threads.
C12_StoredValueReturned ==
    /\ [](\A t \in Threads :
            KeyReturnedBefore(t) =>
                /\ ~mz_invoked[t]
                /\ mz_pc[t] \notin {"func", "store"}
                /\ mz_key[t] \in DOMAIN mz_cache
                /\ KeyedCallEnded(t) => mz_ret[t] = <<"value", mz_cache[mz_key[t]]>>)
    /\ [][\A k \in DOMAIN mz_cache :
            k \in DOMAIN mz_cache' /\ mz_cache'[k] = mz_cache[k]]_vars

\* a second call, naming the file by its other name and spelling the list as a
\* tuple, ended with the value the first call stored
C12_SecondCallServedFromCache ==
    \E t \in Threads :
        /\ KeyedCallEnded(t)
        /\ KeyReturnedBefore(t)
        /\ mz_call[t].args[1] = MzArg0("f1link")
        /\ ~mz_invoked[t]
        /\ mz_ret[t] = <<"value", mz_cache[mz_key[t]]>>

-----------------------------------------------------------------------------
(* C13: the lock and the wrapped operation *)

InWithBlock(t) == mz_pc[t] \in {"check", "func", "store"}

-----------------------------------------------------------------------------
(* C14: arguments that cannot be hashed *)

\* some argument after the first cannot be hashed once a positional list has
\* been turned into a tuple
UnhashableArgument(c) ==
    \/ \E i \in 2..Len(c.args) :
           ~HashOk(IF c.args[i].type = "list" THEN PyValue("tuple", c.args[i].value)
                   ELSE c.args[i])
    \/ \E name \in DOMAIN c.kw : ~HashOk(c.kw[name])

\* C14: a call on an existing file with an argument that cannot be hashed ends
\* by invoking the wrapped operation directly: it raises no TypeError of its
\* own, returns what the operation returned and never reaches the cache.
C14_UnhashableFallsBackToDirectCall ==
    \A t \in Threads :
        (/\ mz_pc[t] = "idle"
         /\ mz_ret[t] # NoRet
         /\ UnhashableArgument(mz_call[t])) =>
            /\ mz_ret[t] # <<"raise", "TypeError">>
            /\ mz_invoked[t]
            /\ mz_key[t] = NoKey

-----------------------------------------------------------------------------
(* C15, C16: the transitive RPATH list of an ELF or Mach-O node *)

\* the node of line 364 has its transitive list and is about to be expanded
ListBuilt(fmts) == pc = "expand" /\ lief_parse(filename2).format \in fmts

\* the chain of parents of a file, nearest first, the file itself not included
RECURSIVE AncestorsOf(_)
AncestorsOf(f) ==
    IF f \notin DOMAIN parents_by_filename \/ ~Truthy(parents_by_filename[f]) THEN <<>>
    ELSE <<parents_by_filename[f]>> \o AncestorsOf(parents_by_filename[f])

\* the own entries of the files of a list, concatenated in the list's order
RECURSIVE OwnEntries(_)
OwnEntries(files) ==
    IF files = <<>> THEN <<>>
    ELSE rpaths_by_binary[Head(files)] \o OwnEntries(Tail(files))

\* C15: the transitive list of an ELF or Mach-O node is the node's own entries,
\* then its parent's, then each farther ancestor's, the root's last.
C15_OwnEntriesBeforeAncestors ==
    ListBuilt({"ELF", "MACHO"}) =>
        rpaths_transitive = OwnEntries(<<filename2>> \o AncestorsOf(filename2))

\* the binary has a RUNPATH entry
HasRunpath(binary) == ValuesTagged(binary.dynamic_entries, "RUNPATH") # <<>>

\* C16: in the transitive list of an ELF node the entries of an ancestor are
\* present when the ancestor has no RUNPATH (they are its RPATH entries) and
\* absent when it has one.
C16_RunpathNotInherited ==
    ListBuilt({"ELF"}) =>
        \A i \in 1..Len(AncestorsOf(filename2)) :
            LET a == AncestorsOf(filename2)[i]
            IN  \A j \in 1..Len(rpaths_by_binary[a]) :
                    Contains(rpaths_transitive, rpaths_by_binary[a][j])
                        <=> ~HasRunpath(lief_parse(a))

-----------------------------------------------------------------------------
(* C17: the search list of a PE node *)

\* the nearest file, from f up its parent chain, that is an executable
RECURSIVE NearestExe(_)
NearestExe(f) ==
    IF ~Truthy(f) THEN NoneV
    ELSE IF codefile_type(f) = "EXEfile" THEN f
    ELSE IF f \notin DOMAIN parents_by_filename THEN NoneV
    ELSE NearestExe(parents_by_filename[f])

\* the five directories below the environment root, in the order of the claim
EnvrootDirs(envroot) ==
    IF ~Truthy(envroot) THEN <<>>
    ELSE << envroot \o <<"/", "Library", "/", "mingw-w64", "/", "bin">>,
            envroot \o <<"/", "Library", "/", "usr", "/", "bin">>,
            envroot \o <<"/", "Library", "/", "bin">>,
            envroot \o <<"/", "Scripts">>,
            envroot \o <<"/", "bin">> >>

\* the PE node of line 364 has an executable among itself and its ancestors
PeListBuilt == ListBuilt({"PE"}) /\ Truthy(NearestExe(filename2))

\* C17 as stated: the list of a PE node is the nearest executable's directory,
\* the five environment directories, the Windows root, then its System32.
C17_EnvrootBeforeWindowsRoot ==
    PeListBuilt =>
        rpaths_transitive =
            <<dirname(NearestExe(filename2))>>
            \o EnvrootDirs(args.envroot)
            \o (IF Truthy(args.sysroot)
                THEN <<args.sysroot, args.sysroot \o <<"/", "System32">>>> ELSE <<>>)

\* C17: the list of a PE node is the nearest executable's directory, then,
\* when the sysroot argument is not empty, its System32 and the sysroot itself,
\* then, when the envroot argument is not empty, the five environment
\* directories; it holds nothing else, so no entry of a parent's list.
C17_WindowsRootBeforeEnvroot ==
    PeListBuilt =>
        rpaths_transitive =
            <<dirname(NearestExe(filename2))>>
            \o (IF Truthy(args.sysroot)
                THEN <<args.sysroot \o <<"/", "System32">>, args.sysroot>> ELSE <<>>)
            \o EnvrootDirs(args.envroot)

\* a DLL below the root executable has its list, with both roots given
C17_DllListWithBothRoots ==
    /\ PeListBuilt
    /\ filename2 # RootFile
    /\ NearestExe(filename2) = RootFile
    /\ Truthy(args.sysroot)
    /\ Truthy(args.envroot)
    /\ Len(rpaths_transitive) = 8

-----------------------------------------------------------------------------
(* C18: which declared names get the $RPATH/ prefix *)

\* the declared library names of lines 389-391, the node's own name removed
LibrariesOf(binary, fname) ==
    LET libraries0 == get_libraries(binary)
    IN  IF fname \in Range(libraries0) THEN RemoveFirst(libraries0, fname) ELSE libraries0

\* C18: a declared name is given the $RPATH/ prefix exactly when it contains
\* no path separator, is not already a portable token and the format is not
\* Mach-O.
C18_PrefixedIffBareName ==
    pc = "expand" =>
        LET binary == lief_parse(filename2)
            libraries == LibrariesOf(binary, filename2)
            these_orig == TheseOrig(binary, filename2)
        IN  \A i \in 1..Len(libraries) :
                (these_orig[i] = <<"$RPATH", "/">> \o libraries[i])
                    <=> /\ ~Contains(libraries[i], "/")
                        /\ ~StartsWithDollar(libraries[i])
                        /\ binary.format # "MACHO"

-----------------------------------------------------------------------------
(* C19: the default candidates for a sysroot *)

\* the directory below a sysroot, whether or not the sysroot ends in a separator
BelowSysroot(sysroot, dir) == RStripSlash(sysroot) \o <<"/">> \o dir

\* the default directories of the claim for a binary and a sysroot
ExpectedDefaults(binary, sysroot) ==
    IF binary.format = "ELF"
    THEN <<BelowSysroot(sysroot, <<"lib">>), BelowSysroot(sysroot, <<"usr", "/", "lib">>)>>
         \o (IF binary.type = "CLASS64"
             THEN <<BelowSysroot(sysroot, <<"lib64">>),
                    BelowSysroot(sysroot, <<"usr", "/", "lib64">>)>>
             ELSE <<>>)
    ELSE <<BelowSysroot(sysroot, <<"usr", "/", "lib">>)>>

\* C19: whenever an ELF or Mach-O node's libraries are resolved, the default
\* candidates are the sysroot's lib and usr/lib directories (with lib64 and
\* usr/lib64 for a 64-bit ELF root, usr/lib alone for Mach-O), the separator
\* between sysroot and directory kept, for every sysroot.
C19_DefaultCandidatesBelowSysroot ==
    ListBuilt({"ELF", "MACHO"}) =>
        DefaultCandidates(default_paths, args.sysroot)
            = ExpectedDefaults(lief_parse(args.filename), args.sysroot)

-----------------------------------------------------------------------------
(* C20: the member scan moves forward *)

-----------------------------------------------------------------------------
(* C21: the parent map and the work queue *)

\* C21: every file on the work queue, and the file being expanded, has an
\* entry in the parent map, whether or not names are resolved; so no walk up
\* the parent chain ends in a failed lookup, and a call with resolve_filenames
\* false and recurse true that has returned holds every original token of the
\* root in its result.
C21_QueuedFilesHaveParents ==
    /\ \A i \in 1..Len(todo) : todo[i] \in DOMAIN parents_by_filename
    /\ pc \in {"walk", "pe_walk", "expand"} => filename2 \in DOMAIN parents_by_filename
    /\ err # "KeyError"
    /\ (pc = "done" /\ ~args.resolve_filenames /\ args.recurse) =>
           Range(TheseOrig(lief_parse(args.filename), args.filename)) \subseteq results

-----------------------------------------------------------------------------
(* C22: the directories substituted for a non-root node *)

\* a node other than the root has just been expanded (lines 389-412)
NonRootExpanded ==
    /\ pc = "for"
    /\ expanded # <<>>
    /\ expanded[Len(expanded)] = filename2
    /\ filename2 # args.filename
    /\ get_uniqueness_key(lief_parse(filename2)) \in already_seen

\* the location of a token of the expanded node when $SELFDIR and bare names
\* stand for the node's own directory and $EXEDIR for the root's
LocationFromOwnDir(orig) ==
    _get_resolved_location(orig, dirname(args.filename), dirname(filename2),
                           rpaths_transitive, EmptyStr, default_paths, args.sysroot,
                           NoneV)[1]

\* C22: the dependencies of a non-root node are resolved with the directory of
\* the node's own file as selfdir and the directory of the root as exedir: with
\* names resolved, the result holds each token's location computed that way.
C22_SelfdirIsNodeDirectory ==
    (NonRootExpanded /\ args.resolve_filenames) =>
        \A orig \in Range(TheseOrig(lief_parse(filename2), filename2)) :
            LocationFromOwnDir(orig) \in results

====
